---- MODULE Spec2Model ----
(***************************************************************************)
(* The port registry and the background listeners of the serial plugin     *)
(* (src/src/desktop_api.rs, src/src/state.rs).                             *)
(*                                                                         *)
(* A command runs on a host thread (a caller).  It takes the registry      *)
(* mutex, works on the map and gives the mutex back when it returns; the   *)
(* only place where a command waits while holding the mutex is             *)
(* JoinHandle::join.  A listener is a thread of its own: it owns the       *)
(* receiver of its cancel channel and a duplicate of the port handle, and  *)
(* never touches the registry.                                             *)
(***************************************************************************)
EXTENDS Integers, Sequences, FiniteSets, TLC

\* ------------------------------------------------------------------ bounds
MaxListeners == 2      \* listener threads spawned in one run
MaxOpens == 2          \* driver connections opened in one run
MaxBytes == 1          \* bytes the devices deliver to the listeners in one run
MaxWritten == 3        \* bytes the transport of one connection accepts from writes
MaxStream == 2         \* bytes one device delivers to its listeners where a stream is followed

\* --------------------------------------------------------------- constants
Ports == {"COM1", "COM2"}
Callers == {"h1", "h2"}
NoOwner == "free"
NoPath == "none"
None == 0              \* Option::None of a sender or of a thread handle
NoArg == 0             \* Option::None of a timeout argument
OpenDefaultTimeout == 200
ReadDefaultTimeout == 1000
DefaultSize == 1024
TimeoutArgs == {NoArg, 50}
\* size arguments: absent (the default), or more than isize::MAX
SizeArgs == {"default", "huge"}
\* size arguments of read and read_binary: also buffers of one and of two bytes
ReadSizeArgs == SizeArgs \cup {"one", "two"}
\* size.unwrap_or(1024), for the sizes that can be allocated
SizeOf(size) == CASE size = "one" -> 1 [] size = "two" -> 2 [] OTHER -> DefaultSize
\* Bytes on the wire: "A", and the two bytes of U+00E9 (0xC3 0xA9)
Bytes == {65, 195, 169}
\* What write is given: the bytes of a String, always well-formed UTF-8
TextPayloads == {<<65>>, <<195, 169>>, <<65, 195, 169>>}
\* What write_binary is given: any bytes
BinaryPayloads == TextPayloads \cup {<<169>>}
\* U+FFFD REPLACEMENT CHARACTER in UTF-8
Replacement == <<239, 191, 189>>

VARIABLES
    serialports,   \* the registry: path -> SerialportInfo, for the open paths
    listeners,     \* every listener thread spawned so far, in spawn order
    lock,          \* the caller that holds the registry mutex, or NoOwner
    poisoned,      \* the mutex is poisoned: a command panicked holding it
    call,          \* per caller: the command it is in the middle of
    ret,           \* the last command that returned, with its result
    nopens,        \* driver connections opened so far
    sealed,        \* listeners of the ports a successful close/close_all closed
    log_level      \* LOG_LEVEL: the level the log macros are filtered by

vars == <<serialports, listeners, lock, poisoned, call, ret, nopens, sealed, log_level>>

\* ------------------------------------------------------------------- state
\* SerialportInfo { serialport, sender, thread_handle }
SerialportInfo(port) == [serialport |-> port, sender |-> None, thread_handle |-> None]

NoInfo ==
    [serialport |-> [id |-> 0, timeout |-> 0, written |-> << >>, buffer |-> << >>],
     sender |-> None, thread_handle |-> None]

Idle ==
    [pc |-> "idle", op |-> "none", path |-> NoPath, join |-> None, info |-> NoInfo,
     drained |-> << >>, closing |-> << >>, errors |-> << >>, timeout |-> NoArg,
     size |-> "default"]

\* enum LogLevel { None, Error, Warn, Info, Debug }
LogLevel == {"None", "Error", "Warn", "Info", "Debug"}

\* impl Default for LogLevel, and the value LOG_LEVEL is initialised with.
Default == "Info"

\* A command that returns no LogLevel.
NoLevel == "none"

NoReturn ==
    [op |-> "none", path |-> NoPath, result |-> "none", errors |-> << >>,
     data |-> << >>, count |-> 0, ports |-> << >>,
     info |-> << >>, level |-> NoLevel]

Init ==
    /\ serialports = << >>
    /\ listeners = << >>
    /\ lock = NoOwner
    /\ poisoned = FALSE
    /\ call = [c \in Callers |-> Idle]
    /\ ret = NoReturn
    /\ nopens = 0
    /\ sealed = {}
    /\ log_level = Default

\* ---------------------------------------------------------------- helpers
ListenerIds == 1..Len(listeners)

\* The thread has left its closure: by break, or by a panic.
Finished(l) == listeners[l].pc \in {"finished", "panicked"}

\* The receiver lives in the thread's closure and is dropped with it.
RxAlive(l) == ~Finished(l)

Remove(map, path) == [p \in DOMAIN map \ {path} |-> map[p]]

Insert(map, path, info) == [p \in DOMAIN map \cup {path} |-> IF p = path THEN info ELSE map[p]]

\* The listener table after sender.send(1) on l's channel succeeded.
Queued(ls, l) == [ls EXCEPT ![l].queue = @ + 1, ![l].signalled = TRUE]

\* The listener table after the sender of l's channel was dropped (it matters
\* to the receiver only, which is gone once the thread has ended).
TxDropped(ls, l) ==
    IF l = None \/ ls[l].pc \in {"finished", "panicked"} THEN ls
    ELSE [ls EXCEPT ![l].txAlive = FALSE]

\* A command returns: its result is recorded and the caller is idle again.
Return(c, op, path, result, errors) ==
    /\ ret' = [op |-> op, path |-> path, result |-> result, errors |-> errors,
               data |-> << >>, count |-> 0, ports |-> << >>,
     info |-> << >>, level |-> NoLevel]
    /\ call' = [call EXCEPT ![c] = Idle]

\* A command returns Ok(value): the bytes of read and read_binary, or the count
\* of write and write_binary.
ReturnValue(c, op, path, data, count) ==
    /\ ret' = [op |-> op, path |-> path, result |-> "Ok", errors |-> << >>,
               data |-> data, count |-> count, ports |-> << >>,
     info |-> << >>, level |-> NoLevel]
    /\ call' = [call EXCEPT ![c] = Idle]

\* A command returns Ok(Vec<String>): the ids managed_ports collected.
ReturnPorts(c, op, ports) ==
    /\ ret' = [op |-> op, path |-> NoPath, result |-> "Ok", errors |-> << >>,
               data |-> << >>, count |-> 0, ports |-> ports, info |-> << >>, level |-> NoLevel]
    /\ call' = [call EXCEPT ![c] = Idle]

\* A command returns Ok(HashMap<String, HashMap<String, String>>): the port
\* names discovery found and, for each, its attribute map.
ReturnList(c, op, ports, info) ==
    /\ ret' = [op |-> op, path |-> NoPath, result |-> "Ok", errors |-> << >>,
               data |-> << >>, count |-> 0, ports |-> ports, info |-> info, level |-> NoLevel]
    /\ call' = [call EXCEPT ![c] = Idle]

\* A registry without mutual exclusion: a command starts whoever is inside;
\* RegistryLockExcludes must reject it.
CanLockAnyway(c) == call[c].pc = "idle"

\* Mutex::lock() by an idle caller: it needs the mutex free.
CanLock(c) == call[c].pc = "idle" /\ lock = NoOwner

\* ---------------------------------------------------------- listener thread
\* The closure is left: rx, the duplicated handle and combined_buffer are dropped.
Exit(ls, l, pc) == [ls EXCEPT ![l].pc = pc, ![l].queue = 0, ![l].combined_buffer = << >>]

\* let mut combined_buffer = Vec::with_capacity(size): a capacity above
\* isize::MAX panics, and the thread ends before its loop.
ListenerStart(l) ==
    /\ listeners[l].pc = "start"
    /\ listeners' = Exit(listeners, l, "panicked")
    /\ UNCHANGED <<serialports, lock, poisoned, call, ret, nopens, sealed, log_level>>

Emit(ls, l, event) == [ls EXCEPT ![l].emitted = Append(@, event)]

DisconnectedEvent == [kind |-> "disconnected", data |-> << >>, size |-> 0]

DataEvent(buffer) == [kind |-> "data", data |-> buffer, size |-> Len(buffer)]

\* app_clone.emit(..): a failed emit is logged and the event is lost.
TryEmit(ls, l, event, emitOk) == IF emitOk THEN Emit(ls, l, event) ELSE ls

\* A faulty poll that treats a received signal like an empty channel
\* (Ok(_) => {}); SignalledListenerEnds must reject it.
ListenerPollIgnores(l) ==
    /\ listeners[l].pc = "poll"
    /\ \E emitOk \in BOOLEAN :
        listeners' =
            IF listeners[l].queue = 0 /\ ~listeners[l].txAlive
            THEN Exit(TryEmit(listeners, l, DisconnectedEvent, emitOk), l, "finished")
            ELSE [listeners EXCEPT ![l].pc = "read"]
    /\ UNCHANGED <<serialports, lock, poisoned, call, ret, nopens, sealed, log_level>>

\* A faulty poll that hands over the accumulated bytes before it obeys the
\* signal; PollObeysChannel must reject it.
ListenerPollFlushes(l) ==
    /\ listeners[l].pc = "poll"
    /\ \E emitOk \in BOOLEAN :
        listeners' =
            IF listeners[l].queue > 0
            THEN Exit(IF listeners[l].combined_buffer = << >> THEN listeners
                      ELSE Emit(listeners, l, DataEvent(listeners[l].combined_buffer)),
                      l, "finished")
            ELSE IF ~listeners[l].txAlive
            THEN Exit(TryEmit(listeners, l, DisconnectedEvent, emitOk), l, "finished")
            ELSE [listeners EXCEPT ![l].pc = "read"]
    /\ UNCHANGED <<serialports, lock, poisoned, call, ret, nopens, sealed, log_level>>

\* match rx.try_recv()
ListenerPoll(l) ==
    /\ listeners[l].pc = "poll"
    /\ \E emitOk \in BOOLEAN :
        listeners' =
            IF listeners[l].queue > 0
            THEN Exit(listeners, l, "finished")
            ELSE IF ~listeners[l].txAlive
            THEN Exit(TryEmit(listeners, l, DisconnectedEvent, emitOk), l, "finished")
            ELSE [listeners EXCEPT ![l].pc = "read"]
    /\ UNCHANGED <<serialports, lock, poisoned, call, ret, nopens, sealed, log_level>>

RECURSIVE SumRead(_)
SumRead(n) == IF n = 0 THEN 0 ELSE listeners[n].nread + SumRead(n - 1)

\* Bytes the devices have delivered to the listeners so far.
Received == SumRead(Len(listeners))

Min(a, b) == IF a < b THEN a ELSE b

\* A faulty flush that keeps the accumulated bytes for the next window when the
\* emit fails; FlushEmptiesBuffer must reject it.
FlushKeepsOnFailure(ls, l, elapsed, emitOk) ==
    IF ~elapsed \/ Len(ls[l].combined_buffer) = 0 \/ ~emitOk
    THEN [ls EXCEPT ![l].pc = "poll"]
    ELSE [Emit(ls, l, DataEvent(ls[l].combined_buffer))
            EXCEPT ![l].combined_buffer = << >>, ![l].pc = "poll"]

\* A faulty flush that emits the accumulated bytes and keeps them for the next
\* window too; EmittedInReadOrder must reject it.
FlushKeepsAfterEmit(ls, l, elapsed, emitOk) ==
    IF ~elapsed \/ Len(ls[l].combined_buffer) = 0
    THEN [ls EXCEPT ![l].pc = "poll"]
    ELSE [TryEmit(ls, l, DataEvent(ls[l].combined_buffer), emitOk) EXCEPT ![l].pc = "poll"]

\* if elapsed_time > timeout { ... emit ... combined_buffer.clear() }; elapsed says
\* whether the window has passed, emitOk whether app.emit succeeds.
Flush(ls, l, elapsed, emitOk) ==
    IF ~elapsed \/ Len(ls[l].combined_buffer) = 0
    THEN [ls EXCEPT ![l].pc = "poll"]
    ELSE [TryEmit(ls, l, DataEvent(ls[l].combined_buffer), emitOk)
            EXCEPT ![l].combined_buffer = << >>, ![l].pc = "poll"]

ListenerReadOutcomes == {"data", "timed_out", "error"}

\* A faulty read that takes a timeout for the loss of the port (the TimedOut arm
\* is missing); ReadTimeoutKeepsPolling must reject it.
ListenerReadsEndsOnTimeout(l, outcome, n, elapsed, emitOk) ==
    /\ listeners[l].pc = "read"
    /\ n \in 0..Min(DefaultSize, MaxBytes - Received)
    /\ outcome # "data" => n = 0
    /\ listeners' =
        IF outcome = "data"
        THEN Flush([listeners EXCEPT
                ![l].combined_buffer = @ \o [i \in 1..n |-> listeners[l].nread + i],
                ![l].nread = @ + n], l, elapsed, emitOk)
        ELSE Exit(TryEmit(listeners, l, DisconnectedEvent, emitOk), l, "finished")
    /\ UNCHANGED <<serialports, lock, poisoned, call, ret, nopens, sealed, log_level>>

\* match serial.read(&mut buffer): Ok(n), a timeout or another error; then the
\* flush of the same iteration.  The bytes a listener reads are numbered in the
\* order it reads them; cap is how many bytes the devices deliver in one run.
ListenerIteration(l, outcome, n, elapsed, emitOk, cap) ==
    /\ listeners[l].pc = "read"
    /\ n \in 0..Min(DefaultSize, cap - Received)
    /\ outcome # "data" => n = 0
    /\ listeners' =
        IF outcome = "data"
        THEN Flush([listeners EXCEPT
                ![l].combined_buffer = @ \o [i \in 1..n |-> listeners[l].nread + i],
                ![l].nread = @ + n], l, elapsed, emitOk)
        ELSE IF outcome = "timed_out"
        THEN Flush(listeners, l, elapsed, emitOk)
        ELSE Exit(TryEmit(listeners, l, DisconnectedEvent, emitOk), l, "finished")
    /\ UNCHANGED <<serialports, lock, poisoned, call, ret, nopens, sealed, log_level>>

\* One iteration of the loop after the poll, with a given outcome of the read.
ListenerReads(l, outcome, n, elapsed, emitOk) ==
    ListenerIteration(l, outcome, n, elapsed, emitOk, MaxBytes)

\* One iteration of the listener's loop after the poll, whatever the read gives.
ListenerRead(l) ==
    \E outcome \in ListenerReadOutcomes, n \in 0..Min(DefaultSize, MaxBytes),
       elapsed \in BOOLEAN, emitOk \in BOOLEAN : ListenerReads(l, outcome, n, elapsed, emitOk)

\* ---------------------------------------------------------------- commands
\* get_serialport: lock, look the path up, run the closure on the record.
LockFails(c, op, path) ==
    /\ poisoned
    /\ Return(c, op, path, "LockFailed", << >>)
    /\ UNCHANGED <<serialports, listeners, lock, poisoned, nopens, sealed, log_level>>

\* A faulty lookup that creates the missing record (entry().or_insert) before
\* it reports the error; AbsentIdIsAnError must reject it.
NotFoundCreates(c, op, path) ==
    /\ ~poisoned
    /\ path \notin DOMAIN serialports
    /\ serialports' = Insert(serialports, path, NoInfo)
    /\ Return(c, op, path, "NotFound", << >>)
    /\ UNCHANGED <<listeners, lock, poisoned, nopens, sealed, log_level>>

NotFound(c, op, path) ==
    /\ ~poisoned
    /\ path \notin DOMAIN serialports
    /\ Return(c, op, path, "NotFound", << >>)
    /\ UNCHANGED <<serialports, listeners, lock, poisoned, nopens, sealed, log_level>>

StopListeningBody(c, path) ==
    LET info == serialports[path] IN
    IF info.sender # None /\ ~RxAlive(info.sender)
    THEN /\ Return(c, "stop_listening", path, "CancelFailed", << >>)
         /\ UNCHANGED <<serialports, listeners>>
    ELSE /\ listeners' = IF info.sender # None
                         THEN TxDropped(Queued(listeners, info.sender), info.sender)
                         ELSE listeners
         /\ serialports' = [serialports EXCEPT ![path].sender = None,
                                               ![path].thread_handle = None]
         /\ Return(c, "stop_listening", path, "Ok", << >>)

\* A stop_listening that takes a failed send for "already stopped", clears the
\* record and returns Ok; EndedListenerBlocksItsPort must reject it.
StopListeningForgives(c, path) ==
    /\ CanLock(c)
    /\ ~poisoned
    /\ path \in DOMAIN serialports
    /\ listeners' = IF serialports[path].sender # None /\ RxAlive(serialports[path].sender)
                    THEN TxDropped(Queued(listeners, serialports[path].sender),
                                   serialports[path].sender)
                    ELSE listeners
    /\ serialports' = [serialports EXCEPT ![path].sender = None,
                                          ![path].thread_handle = None]
    /\ Return(c, "stop_listening", path, "Ok", << >>)
    /\ UNCHANGED <<lock, poisoned, nopens, sealed, log_level>>

\* A stop_listening that clears the record and drops the sender without
\* sending the signal; OnlyReadErrorsDisconnect must reject it.
StopListeningDrops(c, path) ==
    /\ CanLock(c)
    /\ ~poisoned
    /\ path \in DOMAIN serialports
    /\ listeners' = TxDropped(listeners, serialports[path].sender)
    /\ serialports' = [serialports EXCEPT ![path].sender = None,
                                          ![path].thread_handle = None]
    /\ Return(c, "stop_listening", path, "Ok", << >>)
    /\ UNCHANGED <<lock, poisoned, nopens, sealed, log_level>>

StopListening(c, path) ==
    /\ CanLock(c)
    /\ \/ LockFails(c, "stop_listening", path)
       \/ NotFound(c, "stop_listening", path)
       \/ /\ ~poisoned
          /\ path \in DOMAIN serialports
          /\ StopListeningBody(c, path)
          /\ UNCHANGED <<lock, poisoned, nopens, sealed, log_level>>

\* The orders a HashMap may yield the keys S in: every key once.
Orders(S) ==
    {order \in [1..Cardinality(S) -> S] : \A i, j \in 1..Cardinality(S) :
                                            order[i] = order[j] => i = j}

\* A snapshot that leaves out the last key of the iteration;
\* ManagedPortsIsTheRegistry must reject it.
ManagedPortsSkipsOne(c, order) ==
    /\ CanLock(c)
    /\ ~poisoned
    /\ order \in Orders(DOMAIN serialports)
    /\ ReturnPorts(c, "managed_ports", SubSeq(order, 1, Len(order) - 1))
    /\ UNCHANGED <<serialports, listeners, lock, poisoned, nopens, sealed, log_level>>

\* pub fn managed_ports: ports.keys().cloned().collect() under the lock
ManagedPorts(c, order) ==
    /\ CanLock(c)
    /\ \/ LockFails(c, "managed_ports", NoPath)
       \/ /\ ~poisoned
          /\ order \in Orders(DOMAIN serialports)
          /\ ReturnPorts(c, "managed_ports", order)
          /\ UNCHANGED <<serialports, listeners, lock, poisoned, nopens, sealed, log_level>>

\* serialport::available_ports(): an error, or the ports the driver lists.
EnumOutcomes == {"error", "empty", "found"}

\* pub const UNKNOWN, USB, BLUETOOTH, PCI
UNKNOWN == "Unknown"

USB == "USB"

BLUETOOTH == "Bluetooth"

PCI == "PCI"

\* The keys of an attribute map.
Keys == {"type", "vid", "pid", "serial_number", "manufacturer", "product"}

\* Option::None of a descriptor string.
Absent == "none"

\* serialport::SerialPortType as the driver reports it: a USB port has its two
\* numbers and up to three descriptor strings.
PortTypes ==
    [kind : {"UsbPort"}, vid : {1027}, pid : {24577}, serial_number : {Absent, "A1"},
     manufacturer : {Absent, "FTDI"}, product : {Absent}]
    \cup [kind : {"BluetoothPort", "PciPort", "Unknown"}, vid : {0}, pid : {0},
          serial_number : {Absent}, manufacturer : {Absent}, product : {Absent}]

\* u16::to_string, for the numbers of PortTypes.
Decimal(n) == CASE n = 1027 -> "1027" [] n = 24577 -> "24577" [] OTHER -> "0"

\* Option::unwrap_or_else(|| UNKNOWN.to_string())
OrUnknown(str) == IF str = Absent THEN UNKNOWN ELSE str

\* fn get_port_info: every key starts as UNKNOWN, then the arm of the port's
\* type overwrites what it knows.
GetPortInfo(port) ==
    LET port_info == [k \in Keys |-> UNKNOWN] IN
    CASE port.kind = "UsbPort" ->
            [port_info EXCEPT !["type"] = USB,
                              !["vid"] = Decimal(port.vid),
                              !["pid"] = Decimal(port.pid),
                              !["serial_number"] = OrUnknown(port.serial_number),
                              !["manufacturer"] = OrUnknown(port.manufacturer),
                              !["product"] = OrUnknown(port.product)]
      [] port.kind = "BluetoothPort" -> [port_info EXCEPT !["type"] = BLUETOOTH]
      [] port.kind = "PciPort" -> [port_info EXCEPT !["type"] = PCI]
      [] OTHER -> [port_info EXCEPT !["type"] = UNKNOWN]

\* pub fn available_ports: unwrap_or_else(|_| vec![]) turns a failed enumeration
\* into the empty list; each port found gets get_port_info of its type; the
\* registry is not locked.
AvailablePorts(c, enum) ==
    /\ call[c].pc = "idle"
    /\ IF enum = "found"
       THEN \E port \in PortTypes :
                ReturnList(c, "available_ports", <<"COM1">>, <<GetPortInfo(port)>>)
       ELSE ReturnList(c, "available_ports", << >>, << >>)
    /\ UNCHANGED <<serialports, listeners, lock, poisoned, nopens, sealed, log_level>>

\* Command::new(..).output(): the program cannot be started, or it runs and
\* exits with a failure and no output, or it lists nothing, or it lists a device.
CommandOutcomes == {"spawn_failed", "exit_failure", "empty", "found"}

\* The entries one platform command contributes to the result.
Listed(outcome, name) == IF outcome = "found" THEN <<name>> ELSE << >>

\* let mut port_info = HashMap::new(); port_info.insert("type", ..): the
\* attribute map of an entry of the platform commands.
DirectInfo(type) == [k \in {"type"} |-> type]

\* pub fn available_ports_direct: two platform commands, one for the USB
\* devices and one for the device files, each .output().expect(..): a command
\* that cannot be started panics the caller, which gets no result; the
\* registry is not locked.
AvailablePortsDirect(c, usb, dev) ==
    /\ call[c].pc = "idle"
    /\ IF usb = "spawn_failed" \/ dev = "spawn_failed"
       THEN /\ ret' = [NoReturn EXCEPT !.op = "available_ports_direct", !.result = "Panicked"]
            /\ UNCHANGED call
       ELSE ReturnList(c, "available_ports_direct",
                       Listed(usb, "usb") \o Listed(dev, "/dev/ttyUSB0"),
                       Listed(usb, DirectInfo(USB)) \o Listed(dev, DirectInfo(USB)))
    /\ UNCHANGED <<serialports, listeners, lock, poisoned, nopens, sealed, log_level>>

\* pub fn cancel_read
CancelReadBody(c, path) ==
    LET info == serialports[path] IN
    IF info.sender # None /\ ~RxAlive(info.sender)
    THEN /\ Return(c, "cancel_read", path, "CancelFailed", << >>)
         /\ UNCHANGED <<serialports, listeners>>
    ELSE /\ listeners' = IF info.sender # None
                         THEN TxDropped(Queued(listeners, info.sender), info.sender)
                         ELSE listeners
         /\ serialports' = [serialports EXCEPT ![path].sender = None]
         /\ Return(c, "cancel_read", path, "Ok", << >>)

\* A cancel_read that forgets the sender without sending the signal;
\* CommandsReturn must reject it.
CancelReadForgets(c, path) ==
    /\ CanLock(c)
    /\ ~poisoned
    /\ path \in DOMAIN serialports
    /\ listeners' = TxDropped(listeners, serialports[path].sender)
    /\ serialports' = [serialports EXCEPT ![path].sender = None]
    /\ Return(c, "cancel_read", path, "Ok", << >>)
    /\ UNCHANGED <<lock, poisoned, nopens, sealed, log_level>>

CancelRead(c, path) ==
    /\ CanLock(c)
    /\ \/ LockFails(c, "cancel_read", path)
       \/ NotFound(c, "cancel_read", path)
       \/ /\ ~poisoned
          /\ path \in DOMAIN serialports
          /\ CancelReadBody(c, path)
          /\ UNCHANGED <<lock, poisoned, nopens, sealed, log_level>>

\* The listeners ever started for the given paths that have not left their loop.
ListenersOf(paths) == {l \in ListenerIds : listeners[l].path \in paths /\ ~Finished(l)}

\* A command that waits in JoinHandle::join keeps the mutex meanwhile.
Wait(c, op, path, info, h) ==
    /\ call' = [call EXCEPT ![c] = [Idle EXCEPT !.pc = "join", !.op = op, !.path = path,
                                               !.info = info, !.join = h]]
    /\ lock' = c
    /\ UNCHANGED ret

\* A faulty close that looks the record up and removes it only once the signal
\* is sent; ClosedIdIsAbsent must reject it.
TearDownKeeps(c, op, path) ==
    LET info == serialports[path] IN
    IF info.sender # None /\ ~RxAlive(info.sender)
    THEN /\ Return(c, op, path, "CancelFailed", << >>)
         /\ UNCHANGED <<serialports, listeners, lock, sealed, log_level>>
    ELSE /\ serialports' = Remove(serialports, path)
         /\ LET signalled == IF info.sender # None
                             THEN Queued(listeners, info.sender) ELSE listeners IN
            IF info.thread_handle # None
            THEN /\ listeners' = signalled
                 /\ Wait(c, op, path, info, info.thread_handle)
                 /\ UNCHANGED <<sealed, log_level>>
            ELSE /\ listeners' = TxDropped(signalled, info.sender)
                 /\ Return(c, op, path, "Ok", << >>)
                 /\ sealed' = sealed \cup ListenersOf({path}) /\ UNCHANGED log_level
                 /\ UNCHANGED lock

\* close and force_close once the record is out of the map: signal, then join.
TearDown(c, op, path) ==
    LET info == serialports[path] IN
    /\ serialports' = Remove(serialports, path)
    /\ IF info.sender # None /\ ~RxAlive(info.sender)
       THEN \* sender.send(1).map_err(..)? : the record is dropped on the way out
            /\ listeners' = TxDropped(listeners, info.sender)
            /\ Return(c, op, path, "CancelFailed", << >>)
            /\ sealed' = sealed \cup ListenersOf({path}) /\ UNCHANGED log_level
            /\ UNCHANGED lock
       ELSE LET signalled == IF info.sender # None
                             THEN Queued(listeners, info.sender) ELSE listeners IN
            IF info.thread_handle # None
            THEN /\ listeners' = signalled
                 /\ Wait(c, op, path, info, info.thread_handle)
                 /\ UNCHANGED <<sealed, log_level>>
            ELSE /\ listeners' = TxDropped(signalled, info.sender)
                 /\ Return(c, op, path, "Ok", << >>)
                 /\ sealed' = sealed \cup ListenersOf({path}) /\ UNCHANGED log_level
                 /\ UNCHANGED lock

\* A close that reports success and leaves the record in the map;
\* ClosedPortReopens must reject it.
CloseLeavesRecord(c, path) ==
    /\ CanLock(c)
    /\ ~poisoned
    /\ path \in DOMAIN serialports
    /\ Return(c, "close", path, "Ok", << >>)
    /\ UNCHANGED <<serialports, listeners, lock, poisoned, nopens, sealed, log_level>>

\* pub fn close
Close(c, path) ==
    /\ CanLock(c)
    /\ \/ LockFails(c, "close", path)
       \/ NotFound(c, "close", path)
       \/ /\ ~poisoned
          /\ path \in DOMAIN serialports
          /\ TearDown(c, "close", path)
          /\ UNCHANGED <<poisoned, nopens>>

\* A force_close that looks the id up as close does and fails on an absent
\* one; ForceCloseOfAbsentIdSucceeds must reject it.
ForceCloseLikeClose(c, path) ==
    /\ CanLock(c)
    /\ \/ LockFails(c, "force_close", path)
       \/ NotFound(c, "force_close", path)
       \/ /\ ~poisoned
          /\ path \in DOMAIN serialports
          /\ TearDown(c, "force_close", path)
          /\ UNCHANGED <<poisoned, nopens>>

\* pub fn force_close
ForceClose(c, path) ==
    /\ CanLock(c)
    /\ \/ LockFails(c, "force_close", path)
       \/ /\ ~poisoned
          /\ path \notin DOMAIN serialports
          /\ Return(c, "force_close", path, "Ok", << >>)
          /\ UNCHANGED <<serialports, listeners, lock, poisoned, nopens, sealed, log_level>>
       \/ /\ ~poisoned
          /\ path \in DOMAIN serialports
          /\ TearDown(c, "force_close", path)
          /\ UNCHANGED <<poisoned, nopens>>

\* handle.join().map_err(..)? of close and force_close, then the record is dropped
CloseJoin(c) ==
    /\ call[c].pc = "join"
    /\ call[c].op \in {"close", "force_close"}
    /\ Finished(call[c].join)
    /\ listeners' = TxDropped(listeners, call[c].info.sender)
    /\ Return(c, call[c].op, call[c].path,
              IF listeners[call[c].join].pc = "panicked" THEN "JoinFailed" ELSE "Ok", << >>)
    /\ lock' = NoOwner
    /\ sealed' = sealed \cup ListenersOf({call[c].path}) /\ UNCHANGED log_level
    /\ UNCHANGED <<serialports, poisoned, nopens>>

\* A faulty close_all that walks the map without draining it; CloseAllEmpties
\* must reject it.
CloseAllKeeps(c) ==
    /\ CanLock(c)
    /\ ~poisoned
    /\ call' = [call EXCEPT ![c] = [Idle EXCEPT !.pc = "drain", !.op = "close_all",
                                               !.drained = serialports,
                                               !.closing = serialports]]
    /\ lock' = c
    /\ UNCHANGED <<serialports, listeners, poisoned, ret, nopens, sealed, log_level>>

\* pub fn close_all: lock and start draining the map.  The records the loop has
\* not reached yet stay alive (handle, sender, thread handle) until their turn;
\* closing remembers the records the call found.
CloseAll(c) ==
    /\ CanLock(c)
    /\ \/ LockFails(c, "close_all", NoPath)
       \/ /\ ~poisoned
          /\ call' = [call EXCEPT ![c] = [Idle EXCEPT !.pc = "drain", !.op = "close_all",
                                                     !.drained = serialports,
                                                     !.closing = serialports]]
          /\ serialports' = << >>
          /\ lock' = c
          /\ UNCHANGED <<listeners, poisoned, ret, nopens, sealed, log_level>>

SendError(path) == [path |-> path, step |-> "send"]

JoinError(path) == [path |-> path, step |-> "join"]

\* A faulty loop that gives up at the first failed send (sender.send(1)?): the
\* records not reached yet are dropped unsignalled; CloseAllReportsEveryFailure
\* must reject it.
CloseAllNextAborts(c) ==
    /\ call[c].pc = "drain"
    /\ \E path \in DOMAIN call[c].drained :
        LET info == call[c].drained[path]
            failed == info.sender # None /\ ~RxAlive(info.sender)
        IN
        /\ listeners' = IF info.sender # None /\ ~failed
                        THEN TxDropped(Queued(listeners, info.sender), info.sender)
                        ELSE listeners
        /\ call' = [call EXCEPT
                        ![c].drained = IF failed THEN << >> ELSE Remove(@, path),
                        ![c].errors = IF failed THEN Append(@, SendError(path)) ELSE @,
                        ![c].path = path,
                        ![c].join = IF failed THEN None ELSE info.thread_handle,
                        ![c].pc = IF info.thread_handle # None /\ ~failed THEN "join"
                                  ELSE "drain"]
    /\ UNCHANGED <<serialports, lock, poisoned, ret, nopens, sealed, log_level>>

\* for (path, port_info) in ports.drain(): the send, up to the join
CloseAllNext(c) ==
    /\ call[c].pc = "drain"
    /\ \E path \in DOMAIN call[c].drained :
        LET info == call[c].drained[path]
            failed == info.sender # None /\ ~RxAlive(info.sender)
            errors == IF failed THEN Append(call[c].errors, SendError(path))
                      ELSE call[c].errors
        IN
        /\ listeners' = IF info.sender # None /\ ~failed
                        THEN TxDropped(Queued(listeners, info.sender), info.sender)
                        ELSE TxDropped(listeners, info.sender)
        /\ call' = [call EXCEPT ![c].drained = Remove(@, path),
                                ![c].errors = errors,
                                ![c].path = path,
                                ![c].join = info.thread_handle,
                                ![c].pc = IF info.thread_handle # None THEN "join"
                                          ELSE "drain"]
    /\ UNCHANGED <<serialports, lock, poisoned, ret, nopens, sealed, log_level>>

\* if let Err(e) = handle.join() { errors.push(..) }
CloseAllJoin(c) ==
    /\ call[c].pc = "join"
    /\ call[c].op = "close_all"
    /\ Finished(call[c].join)
    /\ call' = [call EXCEPT
                    ![c].errors = IF listeners[call[c].join].pc = "panicked"
                                  THEN Append(@, JoinError(call[c].path)) ELSE @,
                    ![c].pc = "drain"]
    /\ UNCHANGED <<serialports, listeners, lock, poisoned, ret, nopens, sealed, log_level>>

\* if errors.is_empty() { Ok(()) } else { Err(errors.join(", ")) }
CloseAllEnd(c) ==
    /\ call[c].pc = "drain"
    /\ call[c].drained = << >>
    /\ Return(c, "close_all", NoPath,
              IF call[c].errors = << >> THEN "Ok" ELSE "Aggregate", call[c].errors)
    /\ lock' = NoOwner
    /\ sealed' = sealed \cup ListenersOf(DOMAIN call[c].closing) /\ UNCHANGED log_level
    /\ UNCHANGED <<serialports, listeners, poisoned, nopens>>

\* serialport::new(path, baud_rate)...open(), then serialports.insert(..)
DriverOpen(c, path, timeout, map, ok) ==
    /\ IF ok
       THEN /\ nopens' = nopens + 1
            /\ serialports' = Insert(map, path,
                    SerialportInfo([id |-> nopens + 1,
                                    timeout |-> IF timeout = NoArg THEN OpenDefaultTimeout
                                                ELSE timeout,
                                    written |-> << >>, buffer |-> << >>]))
            /\ Return(c, "open", path, "Ok", << >>)
       ELSE /\ serialports' = map
            /\ Return(c, "open", path, "OpenFailed", << >>)
            /\ UNCHANGED nopens

\* An open that refuses a path already in the map and keeps its record;
\* ReopenReplaces must reject it.
OpenRejects(c, path, timeout, ok) ==
    /\ CanLock(c)
    /\ nopens < MaxOpens
    /\ ~poisoned
    /\ IF path \in DOMAIN serialports
       THEN /\ Return(c, "open", path, "AlreadyOpen", << >>)
            /\ UNCHANGED <<serialports, nopens>>
       ELSE DriverOpen(c, path, timeout, serialports, ok)
    /\ UNCHANGED <<listeners, lock, poisoned, sealed, log_level>>

\* An open that asks the driver before it touches the existing record and keeps
\* the record when the driver fails; FailedReopenRemoves must reject it.
OpenKeepsOnFailure(c, path, timeout, ok) ==
    /\ CanLock(c)
    /\ nopens < MaxOpens
    /\ ~poisoned
    /\ IF ok
       THEN /\ listeners' = IF path \in DOMAIN serialports
                            THEN TxDropped(listeners, serialports[path].sender)
                            ELSE listeners
            /\ DriverOpen(c, path, timeout, Remove(serialports, path), ok)
       ELSE /\ DriverOpen(c, path, timeout, serialports, ok)
            /\ UNCHANGED listeners
    /\ UNCHANGED <<lock, poisoned, sealed, log_level>>

\* pub fn open: an existing record of the path is torn down first.
Open(c, path, timeout, ok) ==
    /\ CanLock(c)
    /\ nopens < MaxOpens
    /\ \/ LockFails(c, "open", path)
       \/ /\ ~poisoned
          /\ path \notin DOMAIN serialports
          /\ DriverOpen(c, path, timeout, serialports, ok)
          /\ UNCHANGED <<listeners, lock, poisoned, sealed, log_level>>
       \/ /\ ~poisoned
          /\ path \in DOMAIN serialports
          /\ LET existing == serialports[path] IN
             \* sender.take(): send(1).ok(), and the sender is dropped
             /\ listeners' = IF existing.sender # None /\ RxAlive(existing.sender)
                             THEN TxDropped(Queued(listeners, existing.sender),
                                            existing.sender)
                             ELSE TxDropped(listeners, existing.sender)
             /\ IF existing.thread_handle # None
                THEN /\ serialports' = Remove(serialports, path)
                     /\ call' = [call EXCEPT ![c] =
                            [Idle EXCEPT !.pc = "join", !.op = "open", !.path = path,
                                         !.join = existing.thread_handle,
                                         !.timeout = timeout]]
                     /\ lock' = c
                     /\ UNCHANGED <<ret, nopens>>
                ELSE /\ DriverOpen(c, path, timeout, Remove(serialports, path), ok)
                     /\ UNCHANGED lock
          /\ UNCHANGED <<poisoned, sealed, log_level>>

\* handle.join().ok() of open, then the new connection
OpenJoin(c, ok) ==
    /\ call[c].pc = "join"
    /\ call[c].op = "open"
    /\ Finished(call[c].join)
    /\ DriverOpen(c, call[c].path, call[c].timeout, serialports, ok)
    /\ lock' = NoOwner
    /\ UNCHANGED <<listeners, poisoned, sealed, log_level>>

\* Port ids that differ in their separator characters only, and one that has none.
NamedIds == {"a.b", "a/b", "ab"}

\* The characters of the port ids.
Spelling ==
    [path \in Ports \cup NamedIds |->
        CASE path = "COM1" -> <<"C", "O", "M", "1">>
          [] path = "COM2" -> <<"C", "O", "M", "2">>
          [] path = "a.b" -> <<"a", ".", "b">>
          [] path = "a/b" -> <<"a", "/", "b">>
          [] path = "ab" -> <<"a", "b">>]

\* str.replace(from, to) for one-character patterns
Replace(str, from, to) == [i \in 1..Len(str) |-> IF str[i] = from THEN to ELSE str[i]]

\* let event_path = path.replace(".", "-").replace("/", "-")
EventPath(path) == Replace(Replace(Spelling[path], ".", "-"), "/", "-")

\* format!("plugin-serialplugin-read-{}", &event_path)
ReadEvent(path) == <<"plugin-serialplugin-read-">> \o EventPath(path)

\* format!("plugin-serialplugin-disconnected-{}", &event_path)
DisconnectedEventName(path) == <<"plugin-serialplugin-disconnected-">> \o EventPath(path)

\* The closure of the listener thread and what it captures.
NewListener(path, size) ==
    [path |-> path, pc |-> IF size = "huge" THEN "start" ELSE "poll", queue |-> 0,
     signalled |-> FALSE, txAlive |-> TRUE,
     combined_buffer |-> << >>, nread |-> 0, emitted |-> << >>,
     read_event |-> ReadEvent(path), disconnected_event |-> DisconnectedEventName(path)]

DupOutcomes == {"ok", "clone_fails", "set_timeout_fails"}

\* start_listening from try_clone on: duplicate the handle, spawn, store.
Spawn(c, path, size, dup, ls) ==
    IF dup = "clone_fails"
    THEN /\ Return(c, "start_listening", path, "CloneFailed", << >>)
         /\ listeners' = ls
         /\ UNCHANGED serialports
    ELSE IF dup = "set_timeout_fails"
    THEN /\ Return(c, "start_listening", path, "SetTimeoutFailed", << >>)
         /\ listeners' = ls
         /\ UNCHANGED serialports
    ELSE /\ listeners' = Append(ls, NewListener(path, size))
         /\ serialports' = [serialports EXCEPT ![path].sender = Len(ls) + 1,
                                               ![path].thread_handle = Len(ls) + 1]
         /\ Return(c, "start_listening", path, "Ok", << >>)

\* pub fn start_listening: an existing listener is signalled and joined first.
StartListening(c, path, size, dup) ==
    /\ CanLock(c)
    /\ Len(listeners) < MaxListeners
    /\ \/ LockFails(c, "start_listening", path)
       \/ NotFound(c, "start_listening", path)
       \/ /\ ~poisoned
          /\ path \in DOMAIN serialports
          /\ LET port_info == serialports[path] IN
             IF port_info.sender = None
             THEN /\ Spawn(c, path, size, dup, listeners)
                  /\ UNCHANGED lock
             ELSE IF ~RxAlive(port_info.sender)
             THEN /\ Return(c, "start_listening", path, "StopExistingFailed", << >>)
                  /\ UNCHANGED <<serialports, listeners, lock>>
             ELSE IF port_info.thread_handle = None
             THEN /\ Spawn(c, path, size, dup,
                           TxDropped(Queued(listeners, port_info.sender), port_info.sender))
                  /\ UNCHANGED lock
             ELSE /\ listeners' = TxDropped(Queued(listeners, port_info.sender),
                                            port_info.sender)
                  /\ serialports' = [serialports EXCEPT ![path].sender = None,
                                                        ![path].thread_handle = None]
                  /\ call' = [call EXCEPT ![c] =
                        [Idle EXCEPT !.pc = "join", !.op = "start_listening",
                                     !.path = path, !.info = port_info,
                                     !.join = port_info.thread_handle, !.size = size]]
                  /\ lock' = c
                  /\ UNCHANGED ret
          /\ UNCHANGED <<poisoned, nopens, sealed, log_level>>

\* A faulty replacement that does not wait for the old thread (the handle is
\* dropped instead of joined); StartListeningReplaces must reject it.
StartListeningNoJoin(c, dup) ==
    /\ call[c].pc = "join"
    /\ call[c].op = "start_listening"
    /\ Spawn(c, call[c].path, call[c].size, dup, listeners)
    /\ lock' = NoOwner
    /\ UNCHANGED <<poisoned, nopens, sealed, log_level>>

\* handle.join() of start_listening, then the new listener
StartListeningJoin(c, dup) ==
    /\ call[c].pc = "join"
    /\ call[c].op = "start_listening"
    /\ Finished(call[c].join)
    /\ Spawn(c, call[c].path, call[c].size, dup, listeners)
    /\ lock' = NoOwner
    /\ UNCHANGED <<poisoned, nopens, sealed, log_level>>

\* The commands that hand the record's handle to one driver call and change
\* nothing else: the setters but set_timeout, the line signals, the byte counts
\* and the break control.
HandleOps ==
    {"set_baud_rate", "set_data_bits", "set_flow_control",
     "set_parity", "set_stop_bits", "write_request_to_send", "write_data_terminal_ready",
     "read_clear_to_send", "read_data_set_ready", "read_ring_indicator",
     "read_carrier_detect", "bytes_to_read", "bytes_to_write",
     "set_break", "clear_break"}

\* A handle command that also forgets the port's listener; ConfigureKeepsRecord
\* must reject it.
HandleOpDropsListener(c, op, path, ok) ==
    /\ CanLock(c)
    /\ ~poisoned
    /\ path \in DOMAIN serialports
    /\ serialports' = [serialports EXCEPT ![path].sender = None, ![path].thread_handle = None]
    /\ Return(c, op, path, IF ok THEN "Ok" ELSE "DriverError", << >>)
    /\ UNCHANGED <<listeners, lock, poisoned, nopens, sealed, log_level>>

HandleOp(c, op, path, ok) ==
    /\ CanLock(c)
    /\ \/ LockFails(c, op, path)
       \/ NotFound(c, op, path)
       \/ /\ ~poisoned
          /\ path \in DOMAIN serialports
          /\ Return(c, op, path, IF ok THEN "Ok" ELSE "DriverError", << >>)
          /\ UNCHANGED <<serialports, listeners, lock, poisoned, nopens, sealed, log_level>>

\* pub fn set_timeout
SetTimeout(c, path, timeout, ok) ==
    /\ CanLock(c)
    /\ \/ LockFails(c, "set_timeout", path)
       \/ NotFound(c, "set_timeout", path)
       \/ /\ ~poisoned
          /\ path \in DOMAIN serialports
          /\ serialports' = IF ok THEN [serialports EXCEPT ![path].serialport.timeout = timeout]
                            ELSE serialports
          /\ Return(c, "set_timeout", path, IF ok THEN "Ok" ELSE "DriverError", << >>)
          /\ UNCHANGED <<listeners, lock, poisoned, nopens, sealed, log_level>>

\* A command panics inside the closure of get_serialport: the guard is dropped
\* while unwinding, which poisons the mutex; the caller gets no result.
Panic(c, op, path) ==
    /\ poisoned' = TRUE
    /\ ret' = [op |-> op, path |-> path, result |-> "Panicked", errors |-> << >>,
               data |-> << >>, count |-> 0, ports |-> << >>,
     info |-> << >>, level |-> NoLevel]
    /\ UNCHANGED <<serialports, listeners, lock, call, nopens, sealed, log_level>>

ClearSelectors == {"input", "output", "all"}

\* pub fn clear_buffer: the driver discards what the selector names; the bytes
\* waiting to be read are the input buffer.
ClearBuffer(c, path, selector, ok) ==
    /\ CanLock(c)
    /\ \/ LockFails(c, "clear_buffer", path)
       \/ NotFound(c, "clear_buffer", path)
       \/ /\ ~poisoned
          /\ path \in DOMAIN serialports
          /\ serialports' = IF ok /\ selector # "output"
                            THEN [serialports EXCEPT ![path].serialport.buffer = << >>]
                            ELSE serialports
          /\ Return(c, "clear_buffer", path, IF ok THEN "Ok" ELSE "DriverError", << >>)
          /\ UNCHANGED <<listeners, lock, poisoned, nopens, sealed, log_level>>

WriteOps == {"write", "write_binary"}

\* What a write command may be given.
Payloads(op) == IF op = "write" THEN TextPayloads ELSE BinaryPayloads

\* A write that reports the length of its payload instead of the count the
\* transport returned; WritesInLockOrder must reject it.
WriteReportsLength(c, op, path, payload, n, ok) ==
    /\ CanLock(c)
    /\ ~poisoned
    /\ path \in DOMAIN serialports
    /\ Len(serialports[path].serialport.written) + Len(payload) <= MaxWritten
    /\ n \in 0..Len(payload)
    /\ ok
    /\ serialports' = [serialports EXCEPT
            ![path].serialport.written = @ \o SubSeq(payload, 1, n),
            ![path].serialport.buffer = @ \o SubSeq(payload, 1, n)]
    /\ ReturnValue(c, op, path, << >>, Len(payload))
    /\ UNCHANGED <<listeners, lock, poisoned, nopens, sealed, log_level>>

\* A write that reaches the transport of every port in the registry;
\* CommandsKeepToTheirPort must reject it.
WriteBroadcasts(c, op, path, payload, n, ok) ==
    /\ CanLock(c)
    /\ ~poisoned
    /\ path \in DOMAIN serialports
    /\ Len(serialports[path].serialport.written) + Len(payload) <= MaxWritten
    /\ n \in 0..Len(payload)
    /\ ok
    /\ serialports' = [p \in DOMAIN serialports |->
            [serialports[p] EXCEPT !.serialport.written = @ \o SubSeq(payload, 1, n),
                                   !.serialport.buffer = @ \o SubSeq(payload, 1, n)]]
    /\ ReturnValue(c, op, path, << >>, n)
    /\ UNCHANGED <<listeners, lock, poisoned, nopens, sealed, log_level>>

\* pub fn write / pub fn write_binary: one serialport.write(bytes), which takes
\* the first n bytes of the payload and returns n, or fails.  What the
\* transport has taken it holds for the reader, in order.
Write(c, op, path, payload, n, ok) ==
    /\ CanLock(c)
    /\ \/ LockFails(c, op, path)
       \/ NotFound(c, op, path)
       \/ /\ ~poisoned
          /\ path \in DOMAIN serialports
          /\ Len(serialports[path].serialport.written) + Len(payload) <= MaxWritten
          /\ n \in 0..Len(payload)
          /\ IF ok
             THEN /\ serialports' = [serialports EXCEPT
                        ![path].serialport.written = @ \o SubSeq(payload, 1, n),
                        ![path].serialport.buffer = @ \o SubSeq(payload, 1, n)]
                  /\ ReturnValue(c, op, path, << >>, n)
             ELSE /\ Return(c, op, path, "WriteFailed", << >>)
                  /\ UNCHANGED serialports
          /\ UNCHANGED <<listeners, lock, poisoned, nopens, sealed, log_level>>

\* The first n elements of a sequence, and the rest.
Take(seq, n) == SubSeq(seq, 1, n)

Drop(seq, n) == SubSeq(seq, n + 1, Len(seq))

\* String::from_utf8_lossy(bytes), for bytes below 0xE0: an ASCII byte and a
\* two-byte sequence (lead 0xC2..0xDF, continuation 0x80..0xBF) are kept, every
\* other byte becomes U+FFFD.
RECURSIVE Lossy(_)
Lossy(bytes) ==
    IF bytes = << >> THEN << >>
    ELSE IF bytes[1] < 128 THEN <<bytes[1]>> \o Lossy(Tail(bytes))
    ELSE IF bytes[1] \in 194..223 /\ Len(bytes) >= 2 /\ bytes[2] \in 128..191
    THEN <<bytes[1], bytes[2]>> \o Lossy(Tail(Tail(bytes)))
    ELSE Replacement \o Lossy(Tail(bytes))

ReadOutcomes == {"set_timeout_fails", "data", "timed_out", "io_error"}

\* A read that reports a timeout whenever the transport brings no byte, a
\* read of Ok(0) included; ReadOfNothingEnds must reject it.
ReadTreatsEmptyAsTimeout(c, path, timeout, size, outcome) ==
    /\ CanLock(c)
    /\ ~poisoned
    /\ path \in DOMAIN serialports
    /\ size # "huge"
    /\ outcome \in {"data", "timed_out"}
    /\ LET port == serialports[path].serialport
           n == Min(SizeOf(size), Len(port.buffer))
           t == IF timeout = NoArg THEN ReadDefaultTimeout ELSE timeout
       IN
       /\ serialports' = [serialports EXCEPT
                ![path].serialport.timeout = t,
                ![path].serialport.buffer = IF outcome = "data" THEN Drop(@, n) ELSE @]
       /\ IF outcome = "data" /\ n > 0
          THEN ReturnValue(c, "read", path, Lossy(Take(port.buffer, n)),
                           Len(Lossy(Take(port.buffer, n))))
          ELSE Return(c, "read", path, "NoData", << >>)
    /\ UNCHANGED <<listeners, lock, poisoned, nopens, sealed, log_level>>

\* A read that sets the timeout for its own read only and puts the handle's
\* timeout back before it returns; ReadLeavesItsTimeout must reject it.
ReadRestoresTimeout(c, path, timeout, size, outcome) ==
    /\ CanLock(c)
    /\ ~poisoned
    /\ path \in DOMAIN serialports
    /\ size # "huge"
    /\ LET port == serialports[path].serialport
           n == Min(SizeOf(size), Len(port.buffer))
       IN
       /\ serialports' = IF outcome = "data"
                         THEN [serialports EXCEPT ![path].serialport.buffer = Drop(@, n)]
                         ELSE serialports
       /\ CASE outcome = "set_timeout_fails" ->
                 Return(c, "read", path, "SetTimeoutFailed", << >>)
            [] outcome = "data" ->
                 ReturnValue(c, "read", path, Lossy(Take(port.buffer, n)),
                             Len(Lossy(Take(port.buffer, n))))
            [] outcome = "timed_out" -> Return(c, "read", path, "NoData", << >>)
            [] outcome = "io_error" -> Return(c, "read", path, "ReadFailed", << >>)
    /\ UNCHANGED <<listeners, lock, poisoned, nopens, sealed, log_level>>

\* pub fn read: vec![0; size] (a length above isize::MAX panics), set_timeout on
\* the record's handle, one read.  A read that returns Ok(n) takes the first n
\* bytes the transport holds, n the smaller of the buffer's size and what is
\* there (none when nothing is), and the command returns them as a String.
Read(c, path, timeout, size, outcome) ==
    /\ CanLock(c)
    /\ \/ LockFails(c, "read", path)
       \/ NotFound(c, "read", path)
       \/ /\ ~poisoned
          /\ path \in DOMAIN serialports
          /\ IF size = "huge"
             THEN Panic(c, "read", path)
             ELSE LET port == serialports[path].serialport
                      n == Min(SizeOf(size), Len(port.buffer))
                      t == IF timeout = NoArg THEN ReadDefaultTimeout ELSE timeout
                  IN
                  /\ serialports' =
                        CASE outcome = "set_timeout_fails" -> serialports
                          [] outcome = "data" ->
                                [serialports EXCEPT ![path].serialport.timeout = t,
                                                    ![path].serialport.buffer = Drop(@, n)]
                          [] OTHER -> [serialports EXCEPT ![path].serialport.timeout = t]
                  /\ CASE outcome = "set_timeout_fails" ->
                            Return(c, "read", path, "SetTimeoutFailed", << >>)
                       [] outcome = "data" ->
                            ReturnValue(c, "read", path, Lossy(Take(port.buffer, n)),
                                        Len(Lossy(Take(port.buffer, n))))
                       [] outcome = "timed_out" -> Return(c, "read", path, "NoData", << >>)
                       [] outcome = "io_error" -> Return(c, "read", path, "ReadFailed", << >>)
                  /\ UNCHANGED <<listeners, lock, poisoned, nopens, sealed, log_level>>

\* What a read_binary meets: no set_timeout (it never calls it), and a deadline
\* that has passed before the first read, as it always has with a timeout of 0.
ReadBinaryOutcomes == (ReadOutcomes \ {"set_timeout_fails"}) \cup {"deadline"}

\* pub fn read_binary: Vec::with_capacity(size), then reads until the buffer is
\* full, the deadline has passed or a read brings nothing.  outcome is what the
\* first read does, or that the loop is not entered; when a read leaves room in
\* the buffer, a further read finds the transport empty (Ok(0), a timeout or
\* the deadline end the loop with the bytes so far) or fails, and then the
\* bytes taken so far are dropped.
ReadBinary(c, path, size, outcome) ==
    /\ CanLock(c)
    /\ outcome \in ReadBinaryOutcomes
    /\ \/ LockFails(c, "read_binary", path)
       \/ NotFound(c, "read_binary", path)
       \/ /\ ~poisoned
          /\ path \in DOMAIN serialports
          /\ IF size = "huge"
             THEN Panic(c, "read_binary", path)
             ELSE LET port == serialports[path].serialport
                      n == Min(SizeOf(size), Len(port.buffer))
                  IN
                  /\ \/ /\ outcome = "data"
                        /\ serialports' = [serialports EXCEPT
                                                ![path].serialport.buffer = Drop(@, n)]
                        /\ \/ ReturnValue(c, "read_binary", path, Take(port.buffer, n), n)
                           \/ /\ 0 < n
                              /\ n < SizeOf(size)
                              /\ Return(c, "read_binary", path, "ReadFailed", << >>)
                     \/ /\ outcome = "timed_out"
                        /\ Return(c, "read_binary", path, "NoData", << >>)
                        /\ UNCHANGED serialports
                     \/ /\ outcome = "io_error"
                        /\ Return(c, "read_binary", path, "ReadFailed", << >>)
                        /\ UNCHANGED serialports
                     \/ /\ outcome = "deadline"
                        /\ ReturnValue(c, "read_binary", path, << >>, 0)
                        /\ UNCHANGED serialports
                  /\ UNCHANGED <<listeners, lock, poisoned, nopens, sealed, log_level>>

\* The listener threads: each runs whenever the scheduler lets it.
Listeners ==
    \/ \E l \in ListenerIds : ListenerStart(l)
    \/ \E l \in ListenerIds : ListenerPoll(l)
    \/ \E l \in ListenerIds : ListenerRead(l)

\* One port in use by two host threads: every interleaving of its listeners
\* with the commands that open, close and listen.
Next ==
    \/ Listeners
    \/ \E c \in Callers, timeout \in TimeoutArgs, ok \in BOOLEAN : Open(c, "COM1", timeout, ok)
    \/ \E c \in Callers, ok \in BOOLEAN : OpenJoin(c, ok)
    \/ \E c \in Callers, size \in SizeArgs, dup \in DupOutcomes :
            StartListening(c, "COM1", size, dup)
    \/ \E c \in Callers, dup \in DupOutcomes : StartListeningJoin(c, dup)
    \/ \E c \in Callers : StopListening(c, "COM1")
    \/ \E c \in Callers : CancelRead(c, "COM1")
    \/ \E c \in Callers : Close(c, "COM1")
    \/ \E c \in Callers : ForceClose(c, "COM1")
    \/ \E c \in Callers : CloseJoin(c)
    \/ \E c \in Callers : CloseAll(c)
    \/ \E c \in Callers : CloseAllNext(c)
    \/ \E c \in Callers : CloseAllJoin(c)
    \/ \E c \in Callers : CloseAllEnd(c)

Spec == Init /\ [][Next]_vars

\* Two ports in use by one host thread, which opens them, starts listeners,
\* cancels reads and closes all ports at once.
NextTwo ==
    \/ Listeners
    \/ \E path \in Ports, ok \in BOOLEAN : Open("h1", path, NoArg, ok)
    \/ \E ok \in BOOLEAN : OpenJoin("h1", ok)
    \/ \E path \in Ports, size \in SizeArgs, dup \in DupOutcomes :
            StartListening("h1", path, size, dup)
    \/ \E dup \in DupOutcomes : StartListeningJoin("h1", dup)
    \/ \E path \in Ports : CancelRead("h1", path)
    \/ CloseAll("h1")
    \/ CloseAllNext("h1")
    \/ CloseAllJoin("h1")
    \/ CloseAllEnd("h1")

SpecTwo == Init /\ [][NextTwo]_vars

\* COM1 is opened, used and closed; COM2 is never opened, and every command
\* that takes a path is called on it as well, start_listening and the writes
\* on it alone.
NextAbsent ==
    \/ \E c \in Callers, timeout \in TimeoutArgs, ok \in BOOLEAN : Open(c, "COM1", timeout, ok)
    \/ \E c \in Callers, path \in Ports : Close(c, path)
    \/ \E c \in Callers, path \in Ports : StopListening(c, path)
    \/ \E c \in Callers, path \in Ports : CancelRead(c, path)
    \/ \E c \in Callers, size \in SizeArgs, dup \in DupOutcomes :
            StartListening(c, "COM2", size, dup)
    \/ \E c \in Callers, op \in HandleOps, path \in Ports, ok \in BOOLEAN :
            HandleOp(c, op, path, ok)
    \/ \E c \in Callers, path \in Ports, timeout \in TimeoutArgs \ {NoArg}, ok \in BOOLEAN :
            SetTimeout(c, path, timeout, ok)
    \/ \E c \in Callers, path \in Ports, timeout \in TimeoutArgs, size \in SizeArgs,
          outcome \in ReadOutcomes : Read(c, path, timeout, size, outcome)
    \/ \E c \in Callers, path \in Ports, size \in SizeArgs, outcome \in ReadBinaryOutcomes :
            ReadBinary(c, path, size, outcome)
    \/ \E c \in Callers, path \in Ports, selector \in ClearSelectors, ok \in BOOLEAN :
            ClearBuffer(c, path, selector, ok)
    \/ \E c \in Callers, op \in WriteOps, ok \in BOOLEAN : Write(c, op, "COM2", <<65>>, 1, ok)

SpecAbsent == Init /\ [][NextAbsent]_vars

\* -------------------------------------------------------------- properties
\* The listeners of a path that are in their loop.
Running(path) == {l \in ListenerIds : listeners[l].path = path /\ listeners[l].pc \in {"poll", "read"}}

\* The listeners of a path that were spawned and have not left their closure.
Alive(path) == {l \in ListenerIds : listeners[l].path = path /\ ~Finished(l)}

\* C1: once close or close_all has returned, no listener that was started for
\* a closed port emits another event (sealed holds the listeners of the closed
\* ports that had not ended when the call returned).
NoEventAfterClose ==
    [][\A l \in sealed : listeners'[l].emitted = listeners[l].emitted]_vars

\* C2: in every reachable state at most one listener loop runs per port.
OneListenerPerPort == \A path \in Ports : Cardinality(Running(path)) <= 1

\* C3: when start_listening finds a sender in the record, the listener of that
\* sender has been signalled and has ended before the new listener is spawned,
\* a listener is never spawned for a record that still holds a sender, and
\* after the spawn the record's sender and thread_handle are the new listener.
StartListeningReplaces ==
    [][Len(listeners') > Len(listeners) =>
        LET new == Len(listeners')
            path == listeners'[new].path
        IN
        /\ serialports[path].sender = None
        /\ serialports'[path].sender = new
        /\ serialports'[path].thread_handle = new
        /\ \A c \in Callers :
            call[c].op = "start_listening" /\ call[c].pc = "join" =>
                LET old == call[c].info.sender IN
                /\ old # None
                /\ call[c].info.thread_handle = old
                /\ call[c].path = path
                /\ listeners[old].signalled
                /\ Finished(old)
                /\ new # old
    ]_vars

\* A start_listening that found a sender has signalled its listener, and the
\* join has seen that thread end: the new listener is about to be spawned.
StartListeningReplacesWitness ==
    \E c \in Callers :
        /\ call[c].op = "start_listening"
        /\ call[c].pc = "join"
        /\ call[c].info.sender # None
        /\ listeners[call[c].info.sender].signalled
        /\ Finished(call[c].join)

\* C4: whenever no command holds the registry lock, every record has a sender
\* if and only if it has a thread handle.
SenderIffThreadHandle ==
    lock = NoOwner =>
        \A path \in DOMAIN serialports :
            (serialports[path].sender # None) <=> (serialports[path].thread_handle # None)

\* C5: whenever no command holds the registry lock, a record has a sender if
\* and only if a listener thread of its port is running.
SenderIffListenerRuns ==
    lock = NoOwner =>
        \A path \in DOMAIN serialports :
            (serialports[path].sender # None) <=> (Alive(path) # {})

\* A call of open on a path that is in the map.
Reopen(c, path) ==
    /\ path \in DOMAIN serialports
    /\ \E timeout \in TimeoutArgs, ok \in BOOLEAN : Open(c, path, timeout, ok)

Addressed(c, path) ==
    \/ Close(c, path)
    \/ StopListening(c, path)
    \/ CancelRead(c, path)
    \/ \E size \in SizeArgs, dup \in DupOutcomes : StartListening(c, path, size, dup)
    \/ /\ ret'.op \in HandleOps
       /\ \E ok \in BOOLEAN : HandleOp(c, ret'.op, path, ok)
    \/ /\ ret'.op = "set_timeout"
       /\ \E timeout \in TimeoutArgs, ok \in BOOLEAN : SetTimeout(c, path, timeout, ok)
    \/ /\ ret'.op = "read"
       /\ \E timeout \in TimeoutArgs, size \in ReadSizeArgs, outcome \in ReadOutcomes :
            Read(c, path, timeout, size, outcome)
    \/ /\ ret'.op = "read_binary"
       /\ \E size \in ReadSizeArgs, outcome \in ReadBinaryOutcomes :
            ReadBinary(c, path, size, outcome)
    \/ /\ ret'.op = "clear_buffer"
       /\ \E selector \in ClearSelectors, ok \in BOOLEAN : ClearBuffer(c, path, selector, ok)
    \/ /\ ret'.op \in WriteOps
       /\ \E ok \in BOOLEAN : \E payload \in Payloads(ret'.op), n \in 0..MaxWritten :
            Write(c, ret'.op, path, payload, n, ok)

\* C7: a command other than open and force_close that is given a path which is
\* not in the map returns an error, does not panic (the mutex is not poisoned by
\* it) and leaves the map as it was.
AbsentIdIsAnError ==
    [][\A c \in Callers, path \in Ports :
        path \notin DOMAIN serialports /\ Addressed(c, path) =>
            /\ call'[c].pc = "idle"
            /\ ret'.path = path
            /\ ret'.result \in {"NotFound", "LockFailed"}
            /\ serialports' = serialports
            /\ poisoned' = poisoned
    ]_vars

\* A command was refused for a path that is not in the map while another path
\* is.
AbsentIdIsAnErrorWitness ==
    /\ ret.result = "NotFound"
    /\ ret.op \notin {"none", "open", "force_close"}
    /\ ret.path \notin DOMAIN serialports
    /\ serialports # << >>

\* C8: when close or force_close returns from a call that took the lock, its
\* path is not in the map, whatever the call returns.
ClosedIdIsAbsent ==
    ret.op \in {"close", "force_close"} /\ ret.result # "LockFailed" =>
        ret.path \notin DOMAIN serialports

\* A close or force_close has returned a failure for a path that was in the map.
ClosedIdIsAbsentWitness ==
    /\ ret.op \in {"close", "force_close"}
    /\ ret.result \in {"CancelFailed", "JoinFailed"}
    /\ ret.path \notin DOMAIN serialports

\* C9: when close_all returns from a call that took the lock, the map is empty,
\* whether it returns Ok or the list of failures.
CloseAllEmpties ==
    ret.op = "close_all" /\ ret.result # "LockFailed" => serialports = << >>

\* close_all has returned its list of failures after it found listeners.
CloseAllEmptiesWitness ==
    /\ ret.op = "close_all"
    /\ ret.result = "Aggregate"
    /\ listeners # << >>
    /\ serialports = << >>

\* The records a close_all found whose send failed: the sender was there and
\* its listener was never signalled.
SendFailures(found) ==
    {p \in DOMAIN found : found[p].sender # None /\ ~listeners[found[p].sender].signalled}

\* The records a close_all found whose join failed: the thread had panicked.
JoinFailures(found) ==
    {p \in DOMAIN found : found[p].thread_handle # None
                          /\ listeners[found[p].thread_handle].pc = "panicked"}

\* C10: when close_all returns, every record it found has had its listener
\* signalled (unless that had ended) and its thread joined; it returns an error
\* exactly if a send or a join failed, and the error holds one item per failure.
CloseAllReportsEveryFailure ==
    [][\A c \in Callers :
        call[c].op = "close_all" /\ call'[c].pc = "idle" =>
            LET found == call[c].closing
                errors == ret'.errors
            IN
            /\ \A p \in DOMAIN found :
                /\ found[p].sender # None =>
                        listeners[found[p].sender].signalled \/ Finished(found[p].sender)
                /\ found[p].thread_handle # None => Finished(found[p].thread_handle)
            /\ ret'.result \in {"Ok", "Aggregate"}
            /\ ret'.result = "Aggregate" <=> SendFailures(found) \cup JoinFailures(found) # {}
            /\ Len(errors) = Cardinality(SendFailures(found)) + Cardinality(JoinFailures(found))
            /\ \A p \in SendFailures(found) : \E i \in 1..Len(errors) : errors[i] = SendError(p)
            /\ \A p \in JoinFailures(found) : \E i \in 1..Len(errors) : errors[i] = JoinError(p)
    ]_vars

\* close_all has returned failures of two ports.
CloseAllReportsEveryFailureWitness ==
    /\ ret.op = "close_all"
    /\ \E i, j \in 1..Len(ret.errors) : ret.errors[i].path # ret.errors[j].path

\* The record of the path holds a sender whose listener has ended.
StaleSender(path) ==
    /\ path \in DOMAIN serialports
    /\ serialports[path].sender # None
    /\ ~RxAlive(serialports[path].sender)

\* C11: a command that sends the cancel signal to a listener that has ended
\* reports no error for it and has its usual effect on the record:
\* stop_listening and cancel_read clear the record, start_listening goes on to
\* its new listener, close and force_close return Ok with the path out of the
\* map, and close_all lists no failed send.
FailedSendIsNoError ==
    [][/\ \A c \in Callers, path \in Ports :
            StaleSender(path) =>
                /\ StopListening(c, path) =>
                        /\ ret'.result = "Ok"
                        /\ serialports'[path].sender = None
                        /\ serialports'[path].thread_handle = None
                /\ CancelRead(c, path) =>
                        /\ ret'.result = "Ok"
                        /\ serialports'[path].sender = None
                /\ (\E size \in SizeArgs, dup \in DupOutcomes : StartListening(c, path, size, dup)) =>
                        ~(call'[c].pc = "idle" /\ ret'.result = "StopExistingFailed")
                /\ Close(c, path) \/ ForceClose(c, path) =>
                        /\ path \notin DOMAIN serialports'
                        /\ ~(call'[c].pc = "idle" /\ ret'.result = "CancelFailed")
       /\ \A c \in Callers :
            call[c].op = "close_all" /\ call'[c].pc = "idle" =>
                \A i \in 1..Len(ret'.errors) : ret'.errors[i].step # "send"
    ]_vars

\* One step of listener l's thread, whichever its position.
Scheduled(l) ==
    /\ l \in ListenerIds
    /\ ListenerStart(l) \/ ListenerPoll(l) \/ ListenerRead(l)

\* One port in use by one host thread, with every command that signals a
\* listener.
NextLive ==
    \/ Listeners
    \/ \E ok \in BOOLEAN : Open("h1", "COM1", NoArg, ok)
    \/ \E ok \in BOOLEAN : OpenJoin("h1", ok)
    \/ \E size \in SizeArgs, dup \in DupOutcomes : StartListening("h1", "COM1", size, dup)
    \/ \E dup \in DupOutcomes : StartListeningJoin("h1", dup)
    \/ StopListening("h1", "COM1")
    \/ CancelRead("h1", "COM1")
    \/ Close("h1", "COM1")
    \/ ForceClose("h1", "COM1")
    \/ CloseJoin("h1")
    \/ CloseAll("h1")
    \/ CloseAllNext("h1")
    \/ CloseAllJoin("h1")
    \/ CloseAllEnd("h1")

\* Every listener thread keeps being scheduled, and each of its reads returns.
SpecLive ==
    /\ Init
    /\ [][NextLive]_vars
    /\ \A l \in 1..MaxListeners : WF_vars(Scheduled(l))

\* C12: a listener that has been sent the cancel signal while it was running
\* eventually leaves its closure, whatever its reads return and whether or not
\* its iterations flush.
SignalledListenerEnds ==
    \A l \in 1..MaxListeners :
        (l <= Len(listeners) /\ listeners[l].signalled)
            ~> (l <= Len(listeners) /\ Finished(l))

\* A listener was signalled while it waited in its read, and has left its loop
\* by the break of its next poll.
SignalledListenerEndsWitness ==
    \E l \in ListenerIds :
        /\ listeners[l].signalled
        /\ listeners[l].pc = "finished"
        /\ listeners[l].nread > 0

\* C13: whenever no command holds the registry lock, a path in the map has an
\* open connection (the handle of its record), and a path that is not in the
\* map has none: no listener thread still holds a duplicate of a handle of it.
RegistryMirrorsConnections ==
    lock = NoOwner =>
        \A path \in Ports :
            IF path \in DOMAIN serialports
            THEN serialports[path].serialport.id \in 1..nopens
            ELSE Alive(path) = {}

\* C14: a caller is inside a command exactly while it holds the registry
\* mutex, so at most one is; while one holds it, no other caller's command
\* runs, reads or changes the map or returns, and the call ends by giving the
\* mutex back; a listener thread's step never touches the map.
RegistryLockExcludes ==
    [][/\ \A c \in Callers : (call'[c].pc # "idle") <=> (lock' = c)
       /\ \A c \in Callers :
            lock = c =>
                /\ \A d \in Callers \ {c} : call'[d] = call[d]
                /\ serialports' # serialports \/ ret' # ret => call'[c] # call[c]
                /\ lock' \in {c, NoOwner}
       /\ \A l \in ListenerIds : Scheduled(l) => serialports' = serialports
    ]_vars

\* A command waits for a running listener inside its critical section while
\* the other host thread is idle: that one's commands have to wait.
RegistryLockExcludesWitness ==
    \E c \in Callers, d \in Callers :
        /\ c # d
        /\ lock = c
        /\ call[c].pc = "join"
        /\ ~Finished(call[c].join)
        /\ call[d].pc = "idle"

\* ------------------------------------------------------- the data path
\* One port that two host threads write to, and that one of them opens, reads,
\* clears and closes; no listener runs.
NextData ==
    \/ \E ok \in BOOLEAN : Open("h1", "COM1", NoArg, ok)
    \/ \E c \in Callers, op \in WriteOps, ok \in BOOLEAN :
            \E payload \in Payloads(op), n \in 0..MaxWritten : Write(c, op, "COM1", payload, n, ok)
    \/ \E timeout \in TimeoutArgs, size \in ReadSizeArgs, outcome \in ReadOutcomes :
            Read("h1", "COM1", timeout, size, outcome)
    \/ \E size \in ReadSizeArgs, outcome \in ReadBinaryOutcomes : ReadBinary("h1", "COM1", size, outcome)
    \/ \E selector \in ClearSelectors, ok \in BOOLEAN : ClearBuffer("h1", "COM1", selector, ok)
    \/ Close("h1", "COM1")

SpecData == Init /\ [][NextData]_vars

\* The connection that stays in the registry under path across the step.
Kept(path) ==
    /\ path \in DOMAIN serialports
    /\ path \in DOMAIN serialports'
    /\ serialports'[path].serialport.id = serialports[path].serialport.id

\* The step is a write command on path that found the registry free, returns
\* Ok and leaves the registry free.
WriteReturns(path) ==
    /\ lock = NoOwner
    /\ lock' = NoOwner
    /\ ret'.op \in WriteOps
    /\ ret'.path = path
    /\ ret'.result = "Ok"

\* C15 as stated: the byte stream the transport is handed grows by whole write
\* payloads only, each appended in one step by the write that returns.
WholePayloadsInLockOrder ==
    [][\A path \in Ports :
          Kept(path) /\ serialports'[path].serialport.written # serialports[path].serialport.written
              => /\ WriteReturns(path)
                 /\ \E payload \in Payloads(ret'.op) :
                        /\ serialports'[path].serialport.written
                              = serialports[path].serialport.written \o payload
                        /\ ret'.count = Len(payload)]_vars

\* C15: writes to one port are serialized by the registry lock.  The byte
\* stream handed to the transport grows only in the step of a write command
\* that returns Ok, by the leading part of that write's payload the transport
\* took, appended after everything earlier writes handed over; the write returns
\* the length of that part, which may be less than the payload's; no other
\* command and no failed write changes the stream.
WritesInLockOrder ==
    [][\A path \in Ports :
          Kept(path) /\ serialports'[path].serialport.written # serialports[path].serialport.written
              => /\ WriteReturns(path)
                 /\ \E payload \in Payloads(ret'.op) :
                        /\ ret'.count <= Len(payload)
                        /\ serialports'[path].serialport.written
                              = serialports[path].serialport.written \o Take(payload, ret'.count)]_vars

\* Two writes have run on one connection, the first taken in part only.
WritesInLockOrderWitness ==
    /\ "COM1" \in DOMAIN serialports
    /\ serialports["COM1"].serialport.written = <<195, 65>>
    /\ ret.op = "write"
    /\ ret.count = 1

\* C16: stop_listening is idempotent.  Every stop_listening on an open port
\* returns success, the first of two in a row and the second alike, and one
\* that runs right after a stop_listening on that port changes no record.
StopListeningIsIdempotent ==
    [][\A c \in Callers :
          /\ StopListening(c, "COM1")
          /\ "COM1" \in DOMAIN serialports
          /\ ~poisoned
          => /\ ret'.result = "Ok"
             /\ (ret.op = "stop_listening" /\ ret.path = "COM1"
                    => serialports' = serialports)]_vars

\* C17: force_close on an id that is not in the registry, whose mutex is
\* not poisoned, returns success and changes neither the registry nor any
\* listener; it never returns not-found.
ForceCloseOfAbsentIdSucceeds ==
    [][\A c \in Callers, path \in Ports :
          /\ ForceClose(c, path)
          /\ path \notin DOMAIN serialports
          /\ ~poisoned
          => /\ ret'.op = "force_close"
             /\ ret'.path = path
             /\ ret'.result = "Ok"
             /\ serialports' = serialports
             /\ listeners' = listeners
             /\ call'[c] = Idle
             /\ lock' = NoOwner]_vars

\* force_close has returned success although no port was ever opened.
ForceCloseOfAbsentIdSucceedsWitness ==
    /\ nopens = 0
    /\ serialports = << >>
    /\ ret.op = "force_close"
    /\ ret.result = "Ok"

\* C18: the write-then-read round trip.  Once the bytes B of one text payload
\* have been written to a connection, every read that the transport answers
\* with data returns at most its buffer size in bytes, and returns exactly the
\* bytes it took from the front of what was waiting, so that successive reads
\* concatenate to B and one read with room for all of B returns B.
RoundTripPreservesBytes ==
    [][\A timeout \in TimeoutArgs, size \in ReadSizeArgs \ {"huge"} :
          /\ "COM1" \in DOMAIN serialports
          /\ ~poisoned
          /\ serialports["COM1"].serialport.written \in TextPayloads
          /\ Read("h1", "COM1", timeout, size, "data")
          => /\ Len(ret'.data) <= SizeOf(size)
             /\ serialports["COM1"].serialport.buffer
                    = ret'.data \o serialports'["COM1"].serialport.buffer]_vars

\* The transport brings no byte to a read on the open port COM1 that holds
\* nothing: it reports a timeout, or it returns Ok(0).
ReadsNothing(timeout, size, outcome) ==
    /\ outcome \in {"data", "timed_out"}
    /\ "COM1" \in DOMAIN serialports
    /\ ~poisoned
    /\ serialports["COM1"].serialport.buffer = << >>
    /\ Read("h1", "COM1", timeout, size, outcome)

NextConfig ==
    \/ Listeners
    \/ \E ok \in BOOLEAN : Open("h1", "COM1", NoArg, ok)
    \/ \E ok \in BOOLEAN : OpenJoin("h1", ok)
    \/ \E size \in SizeArgs, dup \in DupOutcomes : StartListening("h1", "COM1", size, dup)
    \/ \E dup \in DupOutcomes : StartListeningJoin("h1", dup)
    \/ \E op \in {"set_baud_rate", "bytes_to_read"}, ok \in BOOLEAN :
            HandleOp("h1", op, "COM1", ok)
    \/ \E ok \in BOOLEAN : SetTimeout("h1", "COM1", 50, ok)
    \/ ClearBuffer("h1", "COM1", "input", TRUE)
    \/ \E outcome \in {"data", "timed_out"} : Read("h1", "COM1", NoArg, "default", outcome)
    \/ \E ok \in BOOLEAN : Write("h1", "write", "COM1", <<65>>, 1, ok)

SpecConfig == Init /\ [][NextConfig]_vars

\* The commands that change a setting of the port.
SettingOps ==
    {"set_baud_rate", "set_data_bits", "set_flow_control", "set_parity", "set_stop_bits"}

\* c changes a setting of path; the step returns from that command.
ChangesSetting(c, path) ==
    /\ ret'.path = path
    /\ \/ /\ ret'.op \in SettingOps
          /\ \E ok \in BOOLEAN : HandleOp(c, ret'.op, path, ok)
       \/ /\ ret'.op = "set_timeout"
          /\ \E timeout \in TimeoutArgs, ok \in BOOLEAN : SetTimeout(c, path, timeout, ok)

\* c configures or queries path, or transfers data on it; the step returns
\* from that command.
Configures(c, path) ==
    /\ ret'.path = path
    /\ \/ /\ ret'.op \in HandleOps
          /\ \E ok \in BOOLEAN : HandleOp(c, ret'.op, path, ok)
       \/ /\ ret'.op = "set_timeout"
          /\ \E timeout \in TimeoutArgs, ok \in BOOLEAN : SetTimeout(c, path, timeout, ok)
       \/ /\ ret'.op = "clear_buffer"
          /\ \E selector \in ClearSelectors, ok \in BOOLEAN : ClearBuffer(c, path, selector, ok)
       \/ /\ ret'.op = "read"
          /\ \E timeout \in TimeoutArgs, size \in ReadSizeArgs, outcome \in ReadOutcomes :
                Read(c, path, timeout, size, outcome)
       \/ /\ ret'.op = "read_binary"
          /\ \E size \in ReadSizeArgs, outcome \in ReadBinaryOutcomes :
                ReadBinary(c, path, size, outcome)
       \/ /\ ret'.op \in WriteOps
          /\ \E ok \in BOOLEAN : \E payload \in Payloads(ret'.op), n \in 0..MaxWritten :
                Write(c, ret'.op, path, payload, n, ok)

\* C20: a command that only configures or queries an open port or transfers
\* data on it keeps the port in the registry with the same connection, sender
\* and thread_handle and touches no listener, whether a listener is attached or
\* not.  A setting change moreover leaves the bytes the transport carries as
\* they were and the registry free and unpoisoned, so a write/read round trip
\* after it meets the port as it would have before.
ConfigureKeepsRecord ==
    [][\A c \in Callers, path \in Ports :
          /\ (path \in DOMAIN serialports /\ call[c].pc = "idle" /\ Configures(c, path)
                => /\ path \in DOMAIN serialports'
                   /\ serialports'[path].sender = serialports[path].sender
                   /\ serialports'[path].thread_handle = serialports[path].thread_handle
                   /\ serialports'[path].serialport.id = serialports[path].serialport.id
                   /\ listeners' = listeners)
          /\ (path \in DOMAIN serialports /\ ~poisoned /\ call[c].pc = "idle"
                /\ ChangesSetting(c, path)
                => /\ serialports'[path].serialport.buffer = serialports[path].serialport.buffer
                   /\ serialports'[path].serialport.written = serialports[path].serialport.written
                   /\ call'[c] = Idle
                   /\ lock' = NoOwner
                   /\ ~poisoned')]_vars

\* A setting was changed while the port's listener runs, and the record still
\* holds the listener's sender and thread handle.
ConfigureKeepsRecordWitness ==
    /\ ret.op = "set_baud_rate"
    /\ ret.result = "Ok"
    /\ "COM1" \in DOMAIN serialports
    /\ serialports["COM1"].sender # None
    /\ serialports["COM1"].thread_handle # None
    /\ \E l \in ListenerIds : listeners[l].pc \in {"poll", "read"} /\ listeners[l].nread > 0

\* ------------------------------------------------- two ports side by side
\* Every order of every set of ids.
AllOrders == UNION {Orders(S) : S \in SUBSET Ports}

\* Two host threads open, write, read and close two ports and ask which ports
\* the registry manages; no listener runs.
NextPorts ==
    \/ \E c \in Callers, path \in Ports, ok \in BOOLEAN : Open(c, path, NoArg, ok)
    \/ \E c \in Callers, path \in Ports : Close(c, path)
    \/ \E path \in Ports : ForceClose("h1", path)
    \/ CloseAll("h1")
    \/ CloseAllNext("h1")
    \/ CloseAllEnd("h1")
    \/ \E c \in Callers, order \in AllOrders : ManagedPorts(c, order)
    \/ \E c \in Callers, path \in Ports, payload \in {<<65>>, <<195, 169>>} :
            Write(c, "write", path, payload, Len(payload), TRUE)
    \/ \E c \in Callers, path \in Ports, outcome \in {"data", "timed_out"} :
            Read(c, path, NoArg, "default", outcome)

SpecPorts == Init /\ [][NextPorts]_vars

\* The set of the elements of a sequence.
Range(seq) == {seq[i] : i \in 1..Len(seq)}

\* The step returns from op on path with result.
Returned(op, path, result) ==
    /\ ret'.op = op
    /\ ret'.path = path
    /\ ret'.result = result

\* C21: managed_ports returns exactly the ids of the registry, each once, and
\* changes no state; and the registry holds exactly the ids that were opened
\* successfully and not removed since: an id enters it only in the step in
\* which an open of that id returns success, every open that returns success
\* leaves its id in it, an id leaves it only in a step of close, force_close,
\* close_all or open, and after a close, a force_close, a close_all or a failed
\* open has returned, the ids it was given are not in it (the mutex not being
\* poisoned).
ManagedPortsIsTheRegistry ==
    [][/\ \A c \in Callers :
            (~poisoned /\ call[c].pc = "idle" /\ ret'.op = "managed_ports"
                /\ \E order \in AllOrders : ManagedPorts(c, order))
                => /\ ret'.result = "Ok"
                   /\ Range(ret'.ports) = DOMAIN serialports
                   /\ Len(ret'.ports) = Cardinality(DOMAIN serialports)
                   /\ UNCHANGED <<serialports, listeners, lock, poisoned, call, nopens>>
       /\ \A path \in Ports :
            /\ (path \notin DOMAIN serialports /\ path \in DOMAIN serialports')
                    => Returned("open", path, "Ok")
            /\ (ret' # ret /\ Returned("open", path, "Ok")) => path \in DOMAIN serialports'
            /\ (path \in DOMAIN serialports /\ path \notin DOMAIN serialports')
                    => \E c \in Callers :
                          \/ call'[c].op \in {"close", "force_close", "close_all", "open"}
                          \/ /\ ret'.op \in {"close", "force_close", "open"}
                             /\ ret'.path = path
                             /\ call[c].pc = "idle"
                             /\ ret' # ret
            /\ (ret' # ret /\ ret'.op \in {"close", "force_close"} /\ ret'.path = path)
                    => path \notin DOMAIN serialports' \/ poisoned
            /\ (ret' # ret /\ ret'.op = "open" /\ ret'.path = path /\ ret'.result # "Ok")
                    => path \notin DOMAIN serialports' \/ poisoned
       /\ (ret' # ret /\ ret'.op = "close_all" /\ ~poisoned) => serialports' = << >>]_vars

\* managed_ports has returned both ids while both ports are open.
ManagedPortsIsTheRegistryWitness ==
    /\ ret.op = "managed_ports"
    /\ Len(ret.ports) = 2
    /\ DOMAIN serialports = Ports

\* --------------------------------------------------- closing and reopening
\* One host thread opens COM1, starts a listener on it, writes, reads, closes
\* and opens it again.
NextReopen ==
    \/ \E l \in ListenerIds : ListenerPoll(l)
    \/ \E l \in ListenerIds : ListenerRead(l)
    \/ \E ok \in BOOLEAN : Open("h1", "COM1", NoArg, ok)
    \/ \E ok \in BOOLEAN : OpenJoin("h1", ok)
    \/ \E dup \in DupOutcomes : StartListening("h1", "COM1", "default", dup)
    \/ \E dup \in DupOutcomes : StartListeningJoin("h1", dup)
    \/ Close("h1", "COM1")
    \/ CloseJoin("h1")
    \/ \E ok \in BOOLEAN : Write("h1", "write", "COM1", <<65>>, 1, ok)
    \/ \E outcome \in {"data", "timed_out"} : Read("h1", "COM1", NoArg, "default", outcome)

SpecReopen == Init /\ [][NextReopen]_vars

\* c writes to path, reads from it or closes it, and returns in this step.
UsesOrCloses(c, path) ==
    /\ ret'.path = path
    /\ \/ /\ ret'.op = "close"
          /\ Close(c, path)
       \/ /\ ret'.op = "read"
          /\ \E timeout \in TimeoutArgs, size \in ReadSizeArgs, outcome \in ReadOutcomes :
                Read(c, path, timeout, size, outcome)
       \/ /\ ret'.op \in WriteOps
          /\ \E ok \in BOOLEAN : \E payload \in Payloads(ret'.op), n \in 0..MaxWritten :
                Write(c, ret'.op, path, payload, n, ok)

\* C22: a port can be closed and opened again.  Once close(id) has returned
\* success the id is out of the registry; while it is out, write, read and close
\* on it return the not-found error and change nothing; it comes back only when
\* an open of it returns success, with a record of a new connection that has no
\* sender, no thread handle and no bytes of the old connection; and on a port
\* that is in the registry a write the transport accepts returns success.
ClosedPortReopens ==
    [][\A c \in Callers, path \in Ports :
          /\ (ret' # ret /\ Returned("close", path, "Ok")) => path \notin DOMAIN serialports'
          /\ (path \notin DOMAIN serialports /\ ~poisoned /\ call[c].pc = "idle"
                /\ UsesOrCloses(c, path))
                => /\ ret'.result = "NotFound"
                   /\ serialports' = serialports
                   /\ listeners' = listeners
          /\ (path \notin DOMAIN serialports /\ path \in DOMAIN serialports')
                => /\ Returned("open", path, "Ok")
                   /\ serialports'[path].sender = None
                   /\ serialports'[path].thread_handle = None
                   /\ serialports'[path].serialport.written = << >>
                   /\ serialports'[path].serialport.buffer = << >>
                   /\ serialports'[path].serialport.id = nopens + 1
                   /\ nopens' = nopens + 1
          /\ (path \in DOMAIN serialports /\ ~poisoned /\ call[c].pc = "idle"
                /\ ret'.op = "write" /\ ret'.path = path
                /\ \E payload \in TextPayloads, n \in 0..MaxWritten :
                        Write(c, "write", path, payload, n, TRUE))
                => ret'.result = "Ok"]_vars

\* The port was opened, listened on, taken out of the registry and opened
\* again, and a write on the new connection has returned success.
ClosedPortReopensWitness ==
    /\ "COM1" \in DOMAIN serialports
    /\ serialports["COM1"].serialport.id = 2
    /\ serialports["COM1"].serialport.written = <<65>>
    /\ serialports["COM1"].sender = None
    /\ ret.op = "write"
    /\ ret.result = "Ok"
    /\ \E l \in ListenerIds : Finished(l)

\* c runs a step of a command that was given path: a command of Addressed, open
\* or force_close, or the join such a command waits in.
Targets(c, path) ==
    \/ Addressed(c, path)
    \/ \E timeout \in TimeoutArgs, ok \in BOOLEAN : Open(c, path, timeout, ok)
    \/ ForceClose(c, path)
    \/ /\ call[c].pc = "join"
       /\ call[c].path = path
       /\ \/ CloseJoin(c)
          \/ \E ok \in BOOLEAN : OpenJoin(c, ok)
          \/ \E dup \in DupOutcomes : StartListeningJoin(c, dup)

\* The record of path is the same before and after the step, or path is in the
\* registry neither before nor after.
SameRecord(path) ==
    IF path \in DOMAIN serialports
    THEN path \in DOMAIN serialports' /\ serialports'[path] = serialports[path]
    ELSE path \notin DOMAIN serialports'

\* C23: port isolation.  A step of a command that was given port A changes
\* neither the record nor the waiting bytes of another port B, and touches no
\* listener of B; and a read on A with room for all that waits, which the
\* transport answers with data, returns exactly the bytes that were written to
\* A and not read yet, whole UTF-8 payloads having been written.
CommandsKeepToTheirPort ==
    [][\A c \in Callers, A \in Ports :
          /\ Targets(c, A)
                => \A B \in Ports \ {A} :
                        /\ SameRecord(B)
                        /\ \A l \in ListenerIds : listeners[l].path = B
                                                    => listeners'[l] = listeners[l]
          /\ (A \in DOMAIN serialports /\ ~poisoned /\ call[c].pc = "idle"
                /\ ret'.op = "read" /\ ret'.path = A
                /\ \E timeout \in TimeoutArgs : Read(c, A, timeout, "default", "data"))
                => LET port == serialports[A].serialport IN
                   /\ ret'.data = port.buffer
                   /\ serialports'[A].serialport.buffer = << >>
                   /\ \E k \in 0..Len(port.written) : port.buffer = Drop(port.written, k)]_vars

\* Both ports hold bytes of their own, and a read on COM1 has returned what was
\* written to COM1 while COM2 still holds what was written to COM2.
CommandsKeepToTheirPortWitness ==
    /\ DOMAIN serialports = Ports
    /\ ret.op = "read"
    /\ ret.path = "COM1"
    /\ ret.data = <<65>>
    /\ serialports["COM1"].serialport.written = <<65>>
    /\ serialports["COM1"].serialport.buffer = << >>
    /\ serialports["COM2"].serialport.buffer = <<195, 169>>

\* ------------------------------------------------------------- discovery
\* Two host threads list the ports of the machine both ways while they open,
\* write to and close the ports of the registry.
NextDiscover ==
    \/ \E c \in Callers, enum \in EnumOutcomes : AvailablePorts(c, enum)
    \/ \E c \in Callers, usb \in CommandOutcomes, dev \in CommandOutcomes :
            AvailablePortsDirect(c, usb, dev)
    \/ \E c \in Callers, path \in Ports, ok \in BOOLEAN : Open(c, path, NoArg, ok)
    \/ \E c \in Callers, path \in Ports : Close(c, path)
    \/ \E c \in Callers, path \in Ports, ok \in BOOLEAN : Write(c, "write", path, <<65>>, 1, ok)

SpecDiscover == Init /\ [][NextDiscover]_vars

\* C24: available_ports and available_ports_direct never fail and never panic:
\* whatever the driver's enumeration and the platform commands do, each returns
\* success with the entries that were found, and changes nothing else.
DiscoveryNeverFails ==
    [][\A c \in Callers :
          \/ \E enum \in EnumOutcomes : AvailablePorts(c, enum)
          \/ \E usb \in CommandOutcomes, dev \in CommandOutcomes : AvailablePortsDirect(c, usb, dev)
          => /\ ret'.result = "Ok"
             /\ UNCHANGED <<serialports, listeners, lock, poisoned>>]_vars

\* ------------------------------------------------------------ event names
\* One host thread opens ports whose ids differ in their separators only and
\* starts listeners on them.
NextNames ==
    \/ \E l \in ListenerIds : ListenerPoll(l)
    \/ \E l \in ListenerIds : ListenerRead(l)
    \/ \E path \in NamedIds, ok \in BOOLEAN : Open("h1", path, NoArg, ok)
    \/ \E path \in NamedIds, dup \in DupOutcomes : StartListening("h1", path, "default", dup)
    \/ \E dup \in DupOutcomes : StartListeningJoin("h1", dup)

SpecNames == Init /\ [][NextNames]_vars

\* C25: the names a listener emits under are a function of its port id, and
\* listeners of different port ids never share the name of their data events
\* nor the name of their disconnected events.
EventNamesAreDistinct ==
    \A l1, l2 \in ListenerIds :
        /\ listeners[l1].read_event = ReadEvent(listeners[l1].path)
        /\ listeners[l1].disconnected_event = DisconnectedEventName(listeners[l1].path)
        /\ listeners[l1].path # listeners[l2].path
            => /\ listeners[l1].read_event # listeners[l2].read_event
               /\ listeners[l1].disconnected_event # listeners[l2].disconnected_event

\* c opens the new connection of a re-open of path in this step: at once when
\* the record held no thread handle, after the join otherwise.
ReopenConnects(c, path) ==
    \/ Reopen(c, path) /\ call'[c].pc = "idle"
    \/ /\ call[c].pc = "join"
       /\ call[c].op = "open"
       /\ call[c].path = path
       /\ \E ok \in BOOLEAN : OpenJoin(c, ok)

\* C26: open on an id that is in the registry force-closes the existing record
\* first: when the new connection is opened, every listener that was started
\* for the id has been signalled and has ended, so that no handle of the old
\* connection is left; and when the driver open succeeds the call returns
\* success with a record of the new connection that has no sender and no thread
\* handle.
ReopenForceCloses ==
    [][\A c \in Callers, path \in Ports :
          ReopenConnects(c, path)
              => /\ Alive(path) = {}
                 /\ ret'.op = "open"
                 /\ ret'.result = "Ok"
                        => /\ path \in DOMAIN serialports'
                           /\ serialports'[path].serialport.id = nopens + 1
                           /\ serialports'[path].sender = None
                           /\ serialports'[path].thread_handle = None]_vars

\* A disconnected event is the last thing a listener emits, and only a
\* listener that has ended has emitted one.
DisconnectedIsLast(l) ==
    \A i \in 1..Len(listeners[l].emitted) :
        listeners[l].emitted[i].kind = "disconnected"
            => i = Len(listeners[l].emitted) /\ Finished(l)

\* C27: a read timeout never ends a listener: after one it polls again, having
\* emitted nothing or the accumulated bytes; any other read error ends it with
\* one emit of a disconnected event (lost when the emit fails), and no event
\* follows a disconnected event or the end of the thread.
ReadTimeoutKeepsPolling ==
    [][\A l \in ListenerIds :
          /\ listeners[l].pc = "read"
                => \A elapsed \in BOOLEAN, emitOk \in BOOLEAN :
                    /\ ListenerReads(l, "timed_out", 0, elapsed, emitOk)
                          => /\ listeners'[l].pc = "poll"
                             /\ \/ listeners'[l].emitted = listeners[l].emitted
                                \/ /\ listeners[l].combined_buffer # << >>
                                   /\ listeners'[l].emitted =
                                        Append(listeners[l].emitted,
                                               DataEvent(listeners[l].combined_buffer))
                    /\ ListenerReads(l, "error", 0, elapsed, emitOk)
                          => /\ listeners'[l].pc = "finished"
                             /\ listeners'[l].emitted =
                                    IF emitOk
                                    THEN Append(listeners[l].emitted, DisconnectedEvent)
                                    ELSE listeners[l].emitted
          /\ Finished(l) => listeners'[l].emitted = listeners[l].emitted
          /\ DisconnectedIsLast(l)]_vars

\* A listener was ended by a read error after it had emitted the bytes it had
\* read across a timeout.
ReadTimeoutKeepsPollingWitness ==
    \E l \in ListenerIds :
        /\ listeners[l].pc = "finished"
        /\ listeners[l].queue = 0
        /\ ~listeners[l].signalled
        /\ listeners[l].txAlive
        /\ Len(listeners[l].emitted) = 2
        /\ listeners[l].emitted[1].kind = "data"
        /\ listeners[l].emitted[2].kind = "disconnected"

\* The owner of a mutex that was dropped with the value it guards.
Gone == "gone"

\* The SerialPort value is dropped while no command runs: the map goes with
\* it, and with each record its sender (no signal is sent), its thread handle
\* (the thread is detached) and its connection.
DropState ==
    /\ lock = NoOwner
    /\ \A c \in Callers : call[c].pc = "idle"
    /\ serialports' = << >>
    /\ listeners' = [l \in DOMAIN listeners |->
            IF ~Finished(l) /\ \E path \in DOMAIN serialports : serialports[path].sender = l
            THEN [listeners[l] EXCEPT !.txAlive = FALSE]
            ELSE listeners[l]]
    /\ lock' = Gone
    /\ UNCHANGED <<poisoned, call, ret, nopens, sealed, log_level>>

\* One caller listens on a port and stops listening, until the plugin's state
\* is dropped under the running listeners.
NextDrop ==
    \/ \E l \in ListenerIds : ListenerPoll(l)
    \/ \E l \in ListenerIds : ListenerRead(l)
    \/ \E ok \in BOOLEAN : Open("h1", "COM1", NoArg, ok)
    \/ \E ok \in BOOLEAN : OpenJoin("h1", ok)
    \/ \E dup \in DupOutcomes : StartListening("h1", "COM1", "default", dup)
    \/ \E dup \in DupOutcomes : StartListeningJoin("h1", dup)
    \/ StopListening("h1", "COM1")
    \/ DropState

SpecDrop == Init /\ [][NextDrop]_vars

\* C28: a poll that finds a cancel signal ends the listener at once and emits
\* nothing, whatever it has accumulated; a poll that finds the channel empty
\* and its sender dropped ends the listener with the one emit of a disconnected
\* event (lost when the emit fails); a poll that finds the channel empty and
\* its sender alive goes on to the read and emits nothing.
PollObeysChannel ==
    [][\A l \in ListenerIds :
          (listeners[l].pc = "poll" /\ ListenerPoll(l))
              => IF listeners[l].queue > 0
                 THEN /\ listeners'[l].pc = "finished"
                      /\ listeners'[l].emitted = listeners[l].emitted
                 ELSE IF ~listeners[l].txAlive
                 THEN /\ listeners'[l].pc = "finished"
                      /\ \/ listeners'[l].emitted = listeners[l].emitted
                         \/ listeners'[l].emitted =
                                Append(listeners[l].emitted, DisconnectedEvent)
                 ELSE /\ listeners'[l].pc = "read"
                      /\ listeners'[l].emitted = listeners[l].emitted]_vars

\* One listener was signalled while it held a byte it had not emitted and ended
\* without emitting it; another found its sender dropped without a signal and
\* ended with a disconnected event.
PollObeysChannelWitness ==
    \E l1, l2 \in ListenerIds :
        /\ listeners[l1].pc = "finished"
        /\ listeners[l1].signalled
        /\ listeners[l1].nread > 0
        /\ listeners[l1].emitted = << >>
        /\ listeners[l2].pc = "finished"
        /\ ~listeners[l2].signalled
        /\ ~listeners[l2].txAlive
        /\ listeners[l2].emitted = <<DisconnectedEvent>>

\* C29: no data event has an empty payload, the size of every data event is the
\* length of its payload, and an iteration whose window has passed leaves the
\* accumulation buffer empty: its bytes make up the one event emitted, or are
\* lost when the emit fails.
FlushEmptiesBuffer ==
    [][\A l \in ListenerIds :
          /\ \A i \in 1..Len(listeners[l].emitted) :
                listeners[l].emitted[i].kind = "data"
                    => /\ Len(listeners[l].emitted[i].data) > 0
                       /\ listeners[l].emitted[i].size = Len(listeners[l].emitted[i].data)
          /\ listeners[l].pc = "read"
                => \A outcome \in {"data", "timed_out"}, n \in 0..Min(DefaultSize, MaxBytes),
                      emitOk \in BOOLEAN :
                      ListenerReads(l, outcome, n, TRUE, emitOk)
                          => /\ listeners'[l].combined_buffer = << >>
                             /\ listeners'[l].pc = "poll"
                             /\ LET flushed == listeners[l].combined_buffer
                                        \o [i \in 1..n |-> listeners[l].nread + i] IN
                                listeners'[l].emitted =
                                    IF emitOk /\ flushed # << >>
                                    THEN Append(listeners[l].emitted,
                                                [kind |-> "data", data |-> flushed,
                                                 size |-> Len(flushed)])
                                    ELSE listeners[l].emitted]_vars

\* A listener has flushed the byte it read in a data event and polls again
\* with an empty buffer.
FlushEmptiesBufferWitness ==
    \E l \in ListenerIds :
        /\ listeners[l].pc = "poll"
        /\ listeners[l].nread > 0
        /\ listeners[l].combined_buffer = << >>
        /\ Len(listeners[l].emitted) = 1
        /\ listeners[l].emitted[1].kind = "data"
        /\ listeners[l].emitted[1].size = listeners[l].nread

\* c's read or read_binary of path returns in this step.
ReadsEither(c, path) ==
    /\ ret'.path = path
    /\ \/ /\ ret'.op = "read"
          /\ \E timeout \in TimeoutArgs, size \in ReadSizeArgs, outcome \in ReadOutcomes :
                Read(c, path, timeout, size, outcome)
       \/ /\ ret'.op = "read_binary"
          /\ \E size \in ReadSizeArgs, outcome \in ReadBinaryOutcomes :
                ReadBinary(c, path, size, outcome)

\* C30: a read or read_binary of an open port that ends without a failure of
\* the transport and has received no byte returns the "no data received"
\* error: neither command returns a success that carries nothing.
ZeroDataIsAnError ==
    [][\A c \in Callers, path \in Ports :
          (/\ call[c].pc = "idle"
           /\ path \in DOMAIN serialports
           /\ ReadsEither(c, path)
           /\ ret'.result \in {"Ok", "NoData"}
           /\ ret'.count = 0)
              => ret'.result = "NoData"]_vars

\* C31: every attribute map that available_ports or available_ports_direct
\* returns has all six keys (type, vid, pid, serial_number, manufacturer,
\* product), and there is one map for every port reported.
DiscoveryFillsEveryKey ==
    (ret.op \in {"available_ports", "available_ports_direct"} /\ ret.result = "Ok")
        => /\ Len(ret.info) = Len(ret.ports)
           /\ \A i \in 1..Len(ret.info) : DOMAIN ret.info[i] = Keys

\* The record of path holds the sender and the thread handle of a listener
\* that has left its loop on a read error.
EndedOnItsOwn(path) ==
    /\ StaleSender(path)
    /\ listeners[serialports[path].sender].pc = "finished"
    /\ serialports[path].thread_handle = serialports[path].sender

\* The commands that take a record out of the map.
RemovingOps == {"close", "force_close", "close_all", "open"}

Continues(c) ==
    \/ \E ok \in BOOLEAN : OpenJoin(c, ok)
    \/ \E dup \in DupOutcomes : StartListeningJoin(c, dup)
    \/ CloseJoin(c)
    \/ CloseAllNext(c)
    \/ CloseAllJoin(c)
    \/ CloseAllEnd(c)

\* Every listener thread and the host thread inside a command keep being
\* scheduled, and every transport read returns.
SpecReturn ==
    /\ Init
    /\ [][NextLive]_vars
    /\ \A l \in 1..MaxListeners : WF_vars(Scheduled(l))
    /\ WF_vars(Continues("h1"))

\* C33: a command that waits in join() for a listener, holding the registry
\* lock, waits for one that has been sent the cancel signal or has ended; the
\* lock is only ever held by a command that has not returned; and every
\* command that has started returns.
CommandsReturn ==
    /\ [](\A c \in Callers :
            /\ call[c].pc = "join"
                  => /\ lock = c
                     /\ \/ Finished(call[c].join)
                        \/ listeners[call[c].join].signalled
            /\ lock = c => call[c].pc # "idle")
    /\ \A c \in Callers : (call[c].pc # "idle") ~> (call[c].pc = "idle")

\* A command waits in join() for a listener that has been signalled and is
\* still in its read.
CommandsReturnWitness ==
    \E c \in Callers :
        /\ call[c].pc = "join"
        /\ lock = c
        /\ listeners[call[c].join].signalled
        /\ listeners[call[c].join].pc = "read"

StartListeningDuplicates(c, path) ==
    \/ /\ call[c].pc = "idle"
       /\ path \in DOMAIN serialports
       /\ \E size \in SizeArgs, dup \in DupOutcomes : StartListening(c, path, size, dup)
    \/ /\ call[c].pc = "join"
       /\ call[c].op = "start_listening"
       /\ call[c].path = path
       /\ \E dup \in DupOutcomes : StartListeningJoin(c, dup)

\* C35: a start_listening that fails while it duplicates the handle or sets
\* the duplicate's timeout leaves the port in the map with neither a sender
\* nor a thread handle, whatever the record held before the call.
FailedStartListeningClears ==
    [][\A c \in Callers, path \in Ports :
          (/\ ret'.op = "start_listening"
           /\ ret'.result \in {"CloneFailed", "SetTimeoutFailed"}
           /\ StartListeningDuplicates(c, path))
              => /\ path \in DOMAIN serialports'
                 /\ serialports'[path].sender = None
                 /\ serialports'[path].thread_handle = None]_vars

\* C36: a running listener whose sender has been dropped has a cancel signal
\* waiting in its channel, so that its poll finds the signal and never the
\* disconnection; and a listener emits a disconnected event only in the step
\* in which a read of its handle fails.
OnlyReadErrorsDisconnect ==
    [][\A l \in ListenerIds :
          /\ (~Finished(l) /\ ~listeners[l].txAlive) => listeners[l].queue > 0
          /\ (/\ Len(listeners'[l].emitted) > Len(listeners[l].emitted)
              /\ listeners'[l].emitted[Len(listeners'[l].emitted)].kind = "disconnected")
                 => /\ listeners[l].pc = "read"
                    /\ \E elapsed \in BOOLEAN, emitOk \in BOOLEAN :
                            ListenerReads(l, "error", 0, elapsed, emitOk)]_vars

\* One listener has emitted a disconnected event, and another, still running,
\* has lost its sender to a command that had queued the signal first.
OnlyReadErrorsDisconnectWitness ==
    \E l1, l2 \in ListenerIds :
        /\ Finished(l1)
        /\ listeners[l1].emitted = <<DisconnectedEvent>>
        /\ ~Finished(l2)
        /\ ~listeners[l2].txAlive
        /\ listeners[l2].queue > 0

\* ------------------------------------------------------------ one stream
\* One iteration of a listener whose device delivers up to MaxStream bytes.
ListenerReadStream(l) ==
    \E outcome \in ListenerReadOutcomes, n \in 0..Min(DefaultSize, MaxStream),
       elapsed \in BOOLEAN, emitOk \in BOOLEAN :
            ListenerIteration(l, outcome, n, elapsed, emitOk, MaxStream)

\* One host thread opens a port, listens on it and stops listening while the
\* device delivers a stream of bytes.
NextStream ==
    \/ \E l \in ListenerIds : ListenerPoll(l)
    \/ \E l \in ListenerIds : ListenerReadStream(l)
    \/ \E ok \in BOOLEAN : Open("h1", "COM1", NoArg, ok)
    \/ \E ok \in BOOLEAN : OpenJoin("h1", ok)
    \/ \E dup \in DupOutcomes : StartListening("h1", "COM1", "default", dup)
    \/ \E dup \in DupOutcomes : StartListeningJoin("h1", dup)
    \/ StopListening("h1", "COM1")

SpecStream == Init /\ [][NextStream]_vars

\* The payloads of the data events among events, one after the other.
RECURSIVE Delivered(_)
Delivered(events) ==
    IF events = << >> THEN << >>
    ELSE (IF Head(events).kind = "data" THEN Head(events).data ELSE << >>)
            \o Delivered(Tail(events))

\* The bytes listener l has read so far, in the order it read them.
ReadSoFar(l) == [i \in 1..listeners[l].nread |-> i]

\* C37 as stated: what a listener has emitted in data events is a prefix of
\* what it has read.
EmittedIsPrefixOfRead ==
    \A l \in ListenerIds :
        /\ Len(Delivered(listeners[l].emitted)) <= listeners[l].nread
        /\ Delivered(listeners[l].emitted)
                = SubSeq(ReadSoFar(l), 1, Len(Delivered(listeners[l].emitted)))

\* C37 as the code has it: what a listener has emitted in data events are bytes
\* it has read, in read order and none twice, and none of them is a byte still
\* in its accumulation buffer, which holds the bytes read last.  Bytes can be
\* missing anywhere: those of a flush whose emit failed, and those in the
\* buffer when the listener ends.
EmittedInReadOrder ==
    \A l \in ListenerIds :
        LET out == Delivered(listeners[l].emitted)
            held == Len(listeners[l].combined_buffer) IN
        /\ \A i \in 1..Len(out) : out[i] \in 1..(listeners[l].nread - held)
        /\ \A i, j \in 1..Len(out) : i < j => out[i] < out[j]
        /\ listeners[l].combined_buffer
                = SubSeq(ReadSoFar(l), listeners[l].nread - held + 1, listeners[l].nread)

\* A listener has read two bytes and emitted the second only: the emit of
\* the flush that carried the first one failed.
EmittedInReadOrderWitness ==
    \E l \in ListenerIds :
        /\ listeners[l].nread = 2
        /\ Delivered(listeners[l].emitted) = <<2>>
        /\ ~Finished(l)

\* timeout.unwrap_or(1000) of read
ReadTimeoutOf(timeout) == IF timeout = NoArg THEN ReadDefaultTimeout ELSE timeout

\* c's read of path with the given timeout argument returns in this step.
ReadReturns(c, path, timeout) ==
    /\ call[c].pc = "idle"
    /\ ~poisoned
    /\ path \in DOMAIN serialports
    /\ ret'.op = "read"
    /\ ret'.path = path
    /\ ret'.result # "Panicked"
    /\ \E size \in SizeArgs, outcome \in ReadOutcomes : Read(c, path, timeout, size, outcome)

\* c's read_binary of path returns in this step.
ReadBinaryReturns(c, path) ==
    /\ call[c].pc = "idle"
    /\ ~poisoned
    /\ path \in DOMAIN serialports
    /\ ret'.op = "read_binary"
    /\ ret'.path = path
    /\ \E size \in SizeArgs, outcome \in ReadBinaryOutcomes : ReadBinary(c, path, size, outcome)

should_log_error(level) == level \in {"Error", "Warn", "Info", "Debug"}

\* LogLevel::should_log_warn
should_log_warn(level) == level \in {"Warn", "Info", "Debug"}

\* LogLevel::should_log_info
should_log_info(level) == level \in {"Info", "Debug"}

\* LogLevel::should_log_debug
should_log_debug(level) == level \in {"Debug"}

\* get_log_level(): the value behind the LOG_LEVEL mutex. Nothing can panic
\* while that mutex is held, so the lock is never poisoned.
get_log_level == log_level

\* log_error!, log_warn!, log_info!, log_debug!: the macro prints its message.
log_error == should_log_error(get_log_level)

log_warn == should_log_warn(get_log_level)

log_info == should_log_info(get_log_level)

log_debug == should_log_debug(get_log_level)

\* A command returns Ok(LogLevel).
ReturnLevel(c, op, level) ==
    /\ ret' = [NoReturn EXCEPT !.op = op, !.result = "Ok", !.level = level]
    /\ call' = [call EXCEPT ![c] = Idle]

\* set_log_level that lowers the threshold only when asked for more output.
SetLogLevelRaises(c, level) ==
    /\ call[c].pc = "idle"
    /\ log_level' = IF should_log_info(level) THEN level ELSE log_level
    /\ Return(c, "set_log_level", NoPath, "Ok", << >>)
    /\ UNCHANGED <<serialports, listeners, lock, poisoned, nopens, sealed>>

\* commands::set_log_level: stores the level and returns Ok(()). It takes the
\* LOG_LEVEL mutex only, never the registry's.
SetLogLevel(c, level) ==
    /\ call[c].pc = "idle"
    /\ log_level' = level
    /\ Return(c, "set_log_level", NoPath, "Ok", << >>)
    /\ UNCHANGED <<serialports, listeners, lock, poisoned, nopens, sealed>>

\* commands::get_log_level: returns a copy of the level in force.
GetLogLevel(c) ==
    /\ call[c].pc = "idle"
    /\ ReturnLevel(c, "get_log_level", get_log_level)
    /\ UNCHANGED <<serialports, listeners, lock, poisoned, nopens, sealed, log_level>>

\* Two host threads set and query the log level while COM1 is opened, read and
\* closed; a read that asks for too large a buffer panics and poisons the
\* registry.
NextLog ==
    \/ \E c \in Callers, level \in LogLevel : SetLogLevel(c, level)
    \/ \E c \in Callers : GetLogLevel(c)
    \/ \E c \in Callers, timeout \in TimeoutArgs, ok \in BOOLEAN : Open(c, "COM1", timeout, ok)
    \/ \E c \in Callers : Close(c, "COM1")
    \/ \E c \in Callers, size \in SizeArgs, outcome \in {"data", "timed_out"} :
            Read(c, "COM1", NoArg, size, outcome)

SpecLog == Init /\ [][NextLog]_vars

\* C39: the thresholds are nested (debug implies info implies warn implies
\* error, for every level and so for the level in force), None lets no macro
\* print and Debug lets all four; the level in force is Info at the start, only
\* set_log_level changes it, to the level it was given, and get_log_level
\* returns the level in force, that is the one last set.
LogLevelsNest ==
    /\ log_level = "Info"
    /\ [](/\ \A level \in LogLevel :
                /\ should_log_debug(level) => should_log_info(level)
                /\ should_log_info(level) => should_log_warn(level)
                /\ should_log_warn(level) => should_log_error(level)
          /\ ~should_log_error("None") /\ ~should_log_warn("None")
          /\ ~should_log_info("None") /\ ~should_log_debug("None")
          /\ should_log_error("Debug") /\ should_log_warn("Debug")
          /\ should_log_info("Debug") /\ should_log_debug("Debug")
          /\ log_level \in LogLevel
          /\ (log_debug => log_info) /\ (log_info => log_warn) /\ (log_warn => log_error))
    /\ [][/\ log_level' # log_level => ret'.op = "set_log_level"
          /\ \A c \in Callers :
                /\ \A level \in LogLevel :
                      ret'.op = "set_log_level" /\ SetLogLevel(c, level) => log_level' = level
                /\ ret'.op = "get_log_level" /\ GetLogLevel(c)
                      => ret'.level = log_level /\ log_level' = log_level]_vars

\* get_log_level has returned None after set_log_level(None), with the
\* registry poisoned by then.
LogLevelsNestWitness ==
    /\ ret.op = "get_log_level"
    /\ ret.level = "None"
    /\ log_level = "None"
    /\ poisoned

====
